---------------------------- MODULE Spec2Model ----------------------------
(***************************************************************************)
(* Model of the concurrent driver layer of caplin:                         *)
(*   - the SocketCAN transport driver   (source/lib/can.c)                 *)
(*   - the software timer engine        (source/lib/timer.c)               *)
(* Each thread of the program is a process with a program counter; a step  *)
(* is one access to shared state (or one system call) of the C code.       *)
(***************************************************************************)
EXTENDS Integers, Sequences, FiniteSets, TLC

(***************************************************************************)
(* Bounds of the model.                                                    *)
(***************************************************************************)
\* number of descriptors socket() can hand out
MaxFds == 2
\* capacity of the kernel receive queue of the raw socket
MaxQueue == 2
\* reading of the system clock (microseconds) when the program starts
ClockStart == 2000
\* number of tTimerNode records the heap has room for
MaxTimers == 1
\* number of times the clock advances by one millisecond
MaxTicks == 2
\* largest len field of a message passed to CanTransmit
MaxTxLen == 9
\* number of frames the sending node of the bus puts on the bus
MaxFrames == 3
\* number of tTimerNode records of the heap when the registry is looked at alone
MaxNodes == 3
\* records of the heap when several timers expire in one pass
MaxExpiring == 2
\* milliseconds the clock advances while a timer expires and is restarted
MaxLateTicks == 4

(***************************************************************************)
(* Program constants.                                                      *)
(***************************************************************************)
CAN_INVALID_SOCKET == -1
CAN_DATA_LEN_MAX == 8
\* the null pointer of timer.c
NIL == 0

(***************************************************************************)
(* A 32-bit identifier word is kept as its three top bits (top, 0..7) and  *)
(* its 29 low bits (low): word = top * 2^29 + low.  The flags of           *)
(* linux/can.h are the three top bits.                                     *)
(***************************************************************************)
CAN_EFF_FLAG == 4
CAN_RTR_FLAG == 2
CAN_ERR_FLAG == 1

Word(t, l) == [top |-> t, low |-> l]
\* (w & f) != 0 for a single flag bit f
HasFlag(w, f) == (w.top \div f) % 2 = 1
\* w | f
OrFlag(w, f) == IF HasFlag(w, f) THEN w ELSE [w EXCEPT !.top = @ + f]
\* w & ~f
ClearFlag(w, f) == IF HasFlag(w, f) THEN [w EXCEPT !.top = @ - f] ELSE w

NULL == "NULL"
Fds == 3..(2 + MaxFds)

Min(S) == CHOOSE x \in S : \A y \in S : x <= y

\* the 8-byte data buffer of a message or frame
Bytes8(s) == [i \in 1..CAN_DATA_LEN_MAX |-> IF i <= Len(s) THEN s[i] ELSE 0]

\* tCanMsg values the application passes to CanTransmit
TxMsgs ==
  { [id |-> Word(0, 1009), ext |-> TRUE,  len |-> 2, data |-> Bytes8(<<0, 255>>), timestamp |-> 0],
    [id |-> Word(0, 291),  ext |-> FALSE, len |-> 9, data |-> Bytes8(<<1, 2, 3, 4, 5, 6, 7, 8>>), timestamp |-> 0] }

\* struct can_frame values the bus delivers to the socket
BusFrames ==
  { [can_id |-> Word(CAN_EFF_FLAG, 1009), can_dlc |-> 2, data |-> Bytes8(<<0, 255>>)],
    [can_id |-> Word(CAN_RTR_FLAG, 291),  can_dlc |-> 0, data |-> Bytes8(<<>>)] }

NoFrame == [can_id |-> Word(0, 0), can_dlc |-> 0, data |-> Bytes8(<<>>)]
NoMsg == [id |-> Word(0, 0), ext |-> FALSE, len |-> 0, data |-> Bytes8(<<>>), timestamp |-> 0]

VARIABLES
  \* ---- can.c: file-scope data
  canReceivedCallback, canTransmittedCallback, canSocket, canSocketMutex,
  canEventThreadId, canEventThreadRunning, canStopEventThread, canStartTime,
  canConnected,
  \* ---- operating system: open descriptors, bound socket, receive queue, clock
  openFds, sockBound, rxQueue, clock,
  \* ---- the sending node of the bus: the number of frames it has sent
  busSent,
  \* ---- foreground thread inside CanConnect / CanDisconnect / CanTerminate
  mainPc, mainFn, mainResult,
  \* ---- CanEventThread: the thread created last, and the number of threads
  \*      created and not yet joined (counted up to two)
  rxPc, msgReceived, canRxFrame, rxMsg, rxThreads,
  \* ---- a second thread inside CanTransmit (timer or key callback); of the call
  \*      in progress: the connection flag it read, the outcome of its write()
  \*      and the number of times it entered the transmit callback
  txPc, txArg, txMsg, canTxFrame, txResult, txSawConnected, txOutcome, txCbCalls,
  \* ---- history: CanDisconnect has returned and no later CanConnect has
  \*      started a receive thread
  afterDisconnect,
  \* ---- timer.c: file-scope data; tmr is the heap of tTimerNode records and
  \*      live the set of allocated addresses
  timerPollingThreadId, timerPollingThreadRunning, timerStopPollingThread,
  timerListMutex, timerList, tmr, live,
  \* ---- TimerPollingThread
  pollPc, aTimer, now, callbackFcnCopy,
  \* ---- the timer API call in progress on the foreground thread ("app") and
  \*      inside the running expiry callback ("cb")
  call,
  \* ---- history, kept by the actions that record it: the timers whose
  \*      callback has been entered since they were last armed
  fired,
  \* ---- caplin.c: file-scope data, the position of main and the calls it has
  \*      made so far
  appExitProgram, appArgHelp, appPc, appCalls

canData == <<canReceivedCallback, canTransmittedCallback, canSocket,
             canEventThreadId, canEventThreadRunning, canStopEventThread,
             canStartTime, canConnected>>
osVars == <<openFds, sockBound, rxQueue, clock>>
mainVars == <<mainPc, mainFn, mainResult>>
rxVars == <<rxPc, msgReceived, canRxFrame, rxMsg, rxThreads>>
txVars == <<txPc, txArg, txMsg, canTxFrame, txResult, txSawConnected, txOutcome, txCbCalls>>
canVars == <<canData, canSocketMutex, osVars, mainVars, rxVars, txVars, afterDisconnect>>

timerData == <<timerPollingThreadId, timerPollingThreadRunning, timerStopPollingThread,
               timerList, tmr, live>>
pollVars == <<pollPc, aTimer, now, callbackFcnCopy>>
timerVars == <<timerData, timerListMutex, pollVars, call, fired>>

shellVars == <<appExitProgram, appArgHelp, appPc, appCalls>>

vars == <<canVars, busSent, shellVars, timerVars>>

\* UtilSystemTime()
UtilSystemTime == clock

(***************************************************************************)
(* CanInit: the state after construction.                                  *)
(***************************************************************************)
CanInit ==
  /\ canReceivedCallback \in {NULL, "OnMessage"}
  /\ canTransmittedCallback \in {NULL, "OnTransmitted"}
  /\ canSocket = CAN_INVALID_SOCKET
  /\ canEventThreadId = 0
  /\ canEventThreadRunning = FALSE
  /\ canStopEventThread = FALSE
  /\ canStartTime = 0
  /\ canConnected = FALSE
  /\ canSocketMutex = "free"

CanEnvInit ==
  /\ openFds = {}
  /\ sockBound = FALSE
  /\ rxQueue = <<>>
  /\ busSent = 0
  /\ clock = ClockStart
  /\ mainPc = "idle" /\ mainFn = "CanInit" /\ mainResult = FALSE
  /\ rxPc = "none" /\ msgReceived = FALSE /\ canRxFrame = NoFrame /\ rxMsg = NoMsg
  /\ rxThreads = 0
  /\ txPc = "idle" /\ txArg = NoMsg /\ txMsg = NoMsg /\ canTxFrame = NoFrame
  /\ txResult = FALSE /\ txSawConnected = FALSE /\ txOutcome = "none" /\ txCbCalls = 0
  /\ afterDisconnect = FALSE


\* the driver used without the application shell: main is not running
AppNotRunning ==
  /\ appExitProgram = FALSE /\ appArgHelp = FALSE /\ appPc = "none" /\ appCalls = <<>>

(***************************************************************************)
(* close(fd): a descriptor that is not open yields EBADF and changes       *)
(* nothing; closing the socket discards its receive queue.                 *)
(***************************************************************************)
Close(fd) ==
  /\ openFds' = openFds \ {fd}
  /\ sockBound' = IF fd \in openFds THEN FALSE ELSE sockBound
  /\ rxQueue' = IF fd \in openFds THEN <<>> ELSE rxQueue
  /\ UNCHANGED clock

(***************************************************************************)
(* CanDisconnect (also the first part of CanConnect and CanTerminate).     *)
(***************************************************************************)
\* the three API functions of the foreground thread start with the body of
\* CanDisconnect
CanDisconnect_Call ==
  /\ mainPc = "idle"
  /\ mainPc' = "dEnter" /\ mainFn' = "CanDisconnect"
  /\ UNCHANGED <<mainResult, canData, canSocketMutex, osVars, rxVars, txVars, afterDisconnect>>
  /\ UNCHANGED <<busSent, shellVars, timerVars>>

\* line 249
CanDisconnect_Enter ==
  /\ mainPc = "dEnter"
  /\ canConnected' = FALSE
  /\ mainPc' = "dStop"
  /\ UNCHANGED <<canReceivedCallback, canTransmittedCallback, canSocket, canEventThreadId,
                 canEventThreadRunning, canStopEventThread, canStartTime,
                 mainFn, mainResult, canSocketMutex, osVars, rxVars, txVars, afterDisconnect>>
  /\ UNCHANGED <<busSent, shellVars, timerVars>>

\* mutant of StopNeeded: the receive thread is never signalled and joined
StopNeeded_Never == FALSE

\* line 252: the thread is signalled and joined only when the flag is set
StopNeeded == canEventThreadRunning

\* lines 252-255
CanDisconnect_Stop ==
  /\ mainPc = "dStop"
  /\ IF StopNeeded
       THEN canStopEventThread' = TRUE /\ mainPc' = "dJoin"
       ELSE UNCHANGED canStopEventThread /\ mainPc' = "dClose"
  /\ UNCHANGED <<canReceivedCallback, canTransmittedCallback, canSocket, canEventThreadId,
                 canEventThreadRunning, canStartTime, canConnected,
                 mainFn, mainResult, canSocketMutex, osVars, rxVars, txVars, afterDisconnect>>
  /\ UNCHANGED <<busSent, shellVars, timerVars>>

\* line 257: thrd_join blocks until the thread has exited
CanDisconnect_Join ==
  /\ mainPc = "dJoin"
  /\ rxPc = "exited"
  /\ rxPc' = "joined"
  /\ rxThreads' = rxThreads - 1
  /\ mainPc' = "dClose"
  /\ UNCHANGED <<canData, mainFn, mainResult, canSocketMutex, osVars,
                 msgReceived, canRxFrame, rxMsg, txVars, afterDisconnect>>
  /\ UNCHANGED <<busSent, shellVars, timerVars>>

\* mutant of CanDisconnect_Close: the handle is left open
CanDisconnect_Close_Skip ==
  /\ mainPc = "dClose"
  /\ mainPc' = "dReset"
  /\ UNCHANGED <<canData, mainFn, mainResult, canSocketMutex, osVars, rxVars, txVars,
                 afterDisconnect, busSent, shellVars, timerVars>>

\* lines 261-264
CanDisconnect_Close ==
  /\ mainPc = "dClose"
  /\ IF canSocket # CAN_INVALID_SOCKET
       THEN Close(canSocket)
       ELSE UNCHANGED osVars
  /\ mainPc' = "dReset"
  /\ UNCHANGED <<canData, mainFn, mainResult, canSocketMutex, rxVars, txVars, afterDisconnect>>
  /\ UNCHANGED <<busSent, shellVars, timerVars>>

\* where the foreground thread continues after the body of CanDisconnect
AfterDisconnectPc ==
  CASE mainFn = "CanConnect" -> "cSocket"
    [] mainFn = "CanTerminate" -> "tDestroy"
    [] OTHER -> "idle"

\* mutant of ResetLocals: the start time is not reset
ResetLocals_KeepStartTime ==
  /\ UNCHANGED canStartTime
  /\ canStopEventThread' = FALSE
  /\ canEventThreadRunning' = FALSE
  /\ canEventThreadId' = 0
  /\ canSocket' = CAN_INVALID_SOCKET

\* lines 267-271
ResetLocals ==
  /\ canStartTime' = 0
  /\ canStopEventThread' = FALSE
  /\ canEventThreadRunning' = FALSE
  /\ canEventThreadId' = 0
  /\ canSocket' = CAN_INVALID_SOCKET

CanDisconnect_Reset ==
  /\ mainPc = "dReset"
  /\ ResetLocals
  /\ mainPc' = AfterDisconnectPc
  /\ afterDisconnect' = TRUE
  /\ UNCHANGED <<canReceivedCallback, canTransmittedCallback, canConnected,
                 mainFn, mainResult, canSocketMutex, osVars, rxVars, txVars>>
  /\ UNCHANGED <<busSent, shellVars, timerVars>>

(***************************************************************************)
(* CanConnect.                                                             *)
(***************************************************************************)
\* lines 144-161: result = true, then CanDisconnect()
CanConnect_Call ==
  /\ mainPc = "idle"
  /\ mainPc' = "dEnter" /\ mainFn' = "CanConnect" /\ mainResult' = TRUE
  /\ UNCHANGED <<canData, canSocketMutex, osVars, rxVars, txVars, afterDisconnect>>
  /\ UNCHANGED <<busSent, shellVars, timerVars>>

\* lines 166-176: socket() returns the lowest unused descriptor, or -1
CanConnect_Socket ==
  /\ mainPc = "cSocket"
  /\ canStartTime' = UtilSystemTime
  /\ \/ /\ Fds \ openFds # {}
        /\ canSocket' = Min(Fds \ openFds)
        /\ openFds' = openFds \cup {canSocket'}
        /\ mainPc' = "cIoctl"
        /\ UNCHANGED mainResult
     \/ /\ canSocket' = -1
        /\ mainResult' = FALSE
        /\ mainPc' = "cReturn"
        /\ UNCHANGED openFds
  /\ UNCHANGED <<canReceivedCallback, canTransmittedCallback, canEventThreadId,
                 canEventThreadRunning, canStopEventThread, canConnected,
                 sockBound, rxQueue, clock, mainFn, canSocketMutex, rxVars, txVars, afterDisconnect>>
  /\ UNCHANGED <<busSent, shellVars, timerVars>>

\* a configuration step of CanConnect that failed: close(canSocket); result = false
ConnectStepFailed ==
  /\ Close(canSocket)
  /\ mainResult' = FALSE
  /\ mainPc' = "cReturn"

\* lines 178-186: ioctl(SIOCGIFINDEX)
CanConnect_Ioctl ==
  /\ mainPc = "cIoctl"
  /\ \/ mainPc' = "cFcntl" /\ UNCHANGED <<mainResult, osVars>>
     \/ ConnectStepFailed
  /\ UNCHANGED <<canData, mainFn, canSocketMutex, rxVars, txVars, afterDisconnect>>
  /\ UNCHANGED <<busSent, shellVars, timerVars>>

\* lines 188-201: fcntl(F_SETFL, O_NONBLOCK)
CanConnect_Fcntl ==
  /\ mainPc = "cFcntl"
  /\ \/ mainPc' = "cBind" /\ UNCHANGED <<mainResult, osVars>>
     \/ ConnectStepFailed
  /\ UNCHANGED <<canData, mainFn, canSocketMutex, rxVars, txVars, afterDisconnect>>
  /\ UNCHANGED <<busSent, shellVars, timerVars>>

\* lines 203-215: bind()
CanConnect_Bind ==
  /\ mainPc = "cBind"
  /\ \/ /\ mainPc' = "cThread"
        /\ sockBound' = TRUE
        /\ UNCHANGED <<mainResult, openFds, rxQueue, clock>>
     \/ ConnectStepFailed
  /\ UNCHANGED <<canData, mainFn, canSocketMutex, rxVars, txVars, afterDisconnect>>
  /\ UNCHANGED <<busSent, shellVars, timerVars>>

\* lines 217-231: thrd_create(CanEventThread)
CanConnect_ThrdCreate ==
  /\ mainPc = "cThread"
  /\ \/ /\ rxPc' = "loop"
        /\ rxThreads' = IF rxThreads < 2 THEN rxThreads + 1 ELSE rxThreads
        /\ canEventThreadId' = 1
        /\ canEventThreadRunning' = TRUE
        /\ afterDisconnect' = FALSE
        /\ mainPc' = "cReturn"
        /\ UNCHANGED <<mainResult, osVars>>
     \/ /\ ConnectStepFailed
        /\ UNCHANGED <<rxPc, rxThreads, canEventThreadId, canEventThreadRunning,
                       afterDisconnect>>
  /\ UNCHANGED <<canReceivedCallback, canTransmittedCallback, canSocket, canStopEventThread,
                 canStartTime, canConnected, mainFn, canSocketMutex,
                 msgReceived, canRxFrame, rxMsg, txVars>>
  /\ UNCHANGED <<busSent, shellVars, timerVars>>

\* lines 234-238
CanConnect_Return ==
  /\ mainPc = "cReturn"
  /\ canConnected' = mainResult
  /\ mainPc' = "idle"
  /\ UNCHANGED <<canReceivedCallback, canTransmittedCallback, canSocket, canEventThreadId,
                 canEventThreadRunning, canStopEventThread, canStartTime,
                 mainFn, mainResult, canSocketMutex, osVars, rxVars, txVars, afterDisconnect>>
  /\ UNCHANGED <<busSent, shellVars, timerVars>>

(***************************************************************************)
(* CanTerminate.                                                           *)
(***************************************************************************)
\* lines 122-125
CanTerminate_Call ==
  /\ mainPc = "idle"
  /\ mainPc' = "dEnter" /\ mainFn' = "CanTerminate"
  /\ UNCHANGED <<mainResult, canData, canSocketMutex, osVars, rxVars, txVars, afterDisconnect>>
  /\ UNCHANGED <<busSent, shellVars, timerVars>>

\* lines 127-132
CanTerminate_Destroy ==
  /\ mainPc = "tDestroy"
  /\ canSocketMutex' = "destroyed"
  /\ canTransmittedCallback' = NULL
  /\ canReceivedCallback' = NULL
  /\ mainPc' = "idle"
  /\ UNCHANGED <<canSocket, canEventThreadId, canEventThreadRunning, canStopEventThread,
                 canStartTime, canConnected, mainFn, mainResult, osVars, rxVars, txVars,
                 afterDisconnect>>
  /\ UNCHANGED <<busSent, shellVars, timerVars>>


(***************************************************************************)
(* mtx_lock / mtx_unlock on canSocketMutex.  After mtx_destroy the lock    *)
(* call is undefined: it returns without excluding anybody (the code does  *)
(* not look at the return value) or never returns.                         *)
(***************************************************************************)
CanMutexLock(t) ==
  /\ canSocketMutex \in {"free", "destroyed"}
  /\ canSocketMutex' = IF canSocketMutex = "free" THEN t ELSE canSocketMutex

\* mutant of CanMutexUnlock: the lock is kept
CanMutexUnlock_Keep(t) == UNCHANGED canSocketMutex

CanMutexUnlock(t) ==
  canSocketMutex' = IF canSocketMutex = t THEN "free" ELSE canSocketMutex

(***************************************************************************)
(* CanEventThread.                                                         *)
(***************************************************************************)
\* line 373, and line 379 on entering the do-loop
CanEventThread_LoopCheck ==
  /\ rxPc = "loop"
  /\ IF canStopEventThread
       THEN \* line 428: the thread ends and its locals are gone
            /\ rxPc' = "exited"
            /\ msgReceived' = FALSE /\ canRxFrame' = NoFrame /\ rxMsg' = NoMsg
       ELSE /\ rxPc' = "lock" /\ msgReceived' = FALSE
            /\ UNCHANGED <<canRxFrame, rxMsg>>
  /\ UNCHANGED <<rxThreads, canData, canSocketMutex, osVars, mainVars, txVars, afterDisconnect>>
  /\ UNCHANGED <<busSent, shellVars, timerVars>>

\* line 380
CanEventThread_Lock ==
  /\ rxPc = "lock"
  /\ CanMutexLock("rx")
  /\ rxPc' = "read"
  /\ UNCHANGED <<rxThreads, msgReceived, canRxFrame, rxMsg, canData, osVars, mainVars, txVars,
                 afterDisconnect>>
  /\ UNCHANGED <<busSent, shellVars, timerVars>>

\* lines 381-385: a non-blocking read of one frame; it yields a whole frame
\* only from an open, bound socket with a queued frame, and may always fail
CanEventThread_Read ==
  /\ rxPc = "read"
  /\ \/ /\ canSocket \in openFds /\ sockBound /\ rxQueue # <<>>
        /\ canRxFrame' = Head(rxQueue)
        /\ rxQueue' = Tail(rxQueue)
        /\ msgReceived' = TRUE
     \/ UNCHANGED <<canRxFrame, rxQueue, msgReceived>>
  /\ rxPc' = "unlock"
  /\ UNCHANGED <<rxThreads, rxMsg, canData, canSocketMutex, openFds, sockBound, clock, mainVars,
                 txVars, afterDisconnect>>
  /\ UNCHANGED <<busSent, shellVars, timerVars>>

\* line 386
CanEventThread_Unlock ==
  /\ rxPc = "unlock"
  /\ CanMutexUnlock("rx")
  /\ rxPc' = "process"
  /\ UNCHANGED <<rxThreads, msgReceived, canRxFrame, rxMsg, canData, osVars, mainVars, txVars,
                 afterDisconnect>>
  /\ UNCHANGED <<busSent, shellVars, timerVars>>

\* mutant of IsDataFrame: no frame is discarded
IsDataFrame_All(frame) == TRUE

\* line 395
IsDataFrame(frame) ==
  ~(HasFlag(frame.can_id, CAN_RTR_FLAG) \/ HasFlag(frame.can_id, CAN_ERR_FLAG))

\* mutant of DecodeRxFrame: the extended-frame flag is left in the identifier
DecodeRxFrame_KeepFlag(frame, old, ts) ==
  [id |-> frame.can_id,
   ext |-> HasFlag(frame.can_id, CAN_EFF_FLAG),
   len |-> frame.can_dlc,
   data |-> [i \in 1..CAN_DATA_LEN_MAX |->
               IF i <= frame.can_dlc THEN frame.data[i] ELSE old.data[i]],
   timestamp |-> ts]

\* lines 392, 397-411: rxMsg after decoding frame; only the first can_dlc data
\* bytes of the local rxMsg are overwritten
DecodeRxFrame(frame, old, ts) ==
  [id |-> ClearFlag(frame.can_id, CAN_EFF_FLAG),
   ext |-> HasFlag(frame.can_id, CAN_EFF_FLAG),
   len |-> frame.can_dlc,
   data |-> [i \in 1..CAN_DATA_LEN_MAX |->
               IF i <= frame.can_dlc THEN frame.data[i] ELSE old.data[i]],
   timestamp |-> ts]

\* mutant of RxAfterProcess: the thread ends when read() yields no frame
RxAfterProcess_EndOnFailure == IF msgReceived THEN "lock" ELSE "exited"

\* mutant of RxAfterProcess: the frame is processed again instead of reading
\* the next one
RxAfterProcess_Again == IF msgReceived THEN "process" ELSE "sleep"

\* line 421 and 424: where the thread goes on after a frame (or none) was handled
RxAfterProcess == IF msgReceived THEN "lock" ELSE "sleep"

\* lines 389-419: handle the frame; the callback runs in state "callback"
CanEventThread_Process ==
  /\ rxPc = "process"
  /\ IF msgReceived
       THEN LET ts == UtilSystemTime - canStartTime IN
            IF IsDataFrame(canRxFrame)
              THEN /\ rxMsg' = DecodeRxFrame(canRxFrame, rxMsg, ts)
                   /\ rxPc' = IF canReceivedCallback # NULL THEN "callback" ELSE RxAfterProcess
              ELSE /\ rxMsg' = [rxMsg EXCEPT !.timestamp = ts]
                   /\ rxPc' = RxAfterProcess
       ELSE /\ rxPc' = RxAfterProcess
            /\ UNCHANGED rxMsg
  /\ msgReceived' = IF rxPc' = "lock" THEN FALSE ELSE msgReceived
  /\ UNCHANGED <<rxThreads, canRxFrame, canData, canSocketMutex, osVars, mainVars, txVars,
                 afterDisconnect>>
  /\ UNCHANGED <<busSent, shellVars, timerVars>>

\* line 416: canReceivedCallback(&rxMsg) returns
CanEventThread_CallbackReturn ==
  /\ rxPc = "callback"
  /\ rxPc' = RxAfterProcess
  /\ msgReceived' = IF rxPc' = "lock" THEN FALSE ELSE msgReceived
  /\ UNCHANGED <<rxThreads, canRxFrame, rxMsg, canData, canSocketMutex, osVars, mainVars, txVars,
                 afterDisconnect>>
  /\ UNCHANGED <<busSent, shellVars, timerVars>>

\* line 424
CanEventThread_Sleep ==
  /\ rxPc = "sleep"
  /\ rxPc' = "loop"
  /\ UNCHANGED <<rxThreads, msgReceived, canRxFrame, rxMsg, canData, canSocketMutex, osVars, mainVars,
                 txVars, afterDisconnect>>
  /\ UNCHANGED <<busSent, shellVars, timerVars>>

\* a frame of the bus is queued on the bound socket
BusFrameArrives ==
  /\ sockBound
  /\ Len(rxQueue) < MaxQueue
  /\ \E f \in BusFrames : rxQueue' = Append(rxQueue, f)
  /\ UNCHANGED <<openFds, sockBound, clock, canData, canSocketMutex, mainVars, rxVars,
                 txVars, afterDisconnect>>
  /\ UNCHANGED <<busSent, shellVars, timerVars>>

(***************************************************************************)
(* CanTransmit, called on a thread other than the foreground thread.       *)
(***************************************************************************)
\* mutant of BuildTxFrame: the length is not limited to the size of the buffer
BuildTxFrame_NoClamp(msg) ==
  [can_id |-> IF msg.ext THEN OrFlag(msg.id, CAN_EFF_FLAG) ELSE msg.id,
   can_dlc |-> msg.len,
   data |-> [i \in 1..CAN_DATA_LEN_MAX |-> IF i <= msg.len THEN msg.data[i] ELSE 0]]

\* mutant of BuildTxFrame: the extended-frame flag is not set
BuildTxFrame_NoFlag(msg) ==
  LET dlc == IF msg.len <= CAN_DATA_LEN_MAX THEN msg.len ELSE CAN_DATA_LEN_MAX IN
  [can_id |-> msg.id,
   can_dlc |-> dlc,
   data |-> [i \in 1..CAN_DATA_LEN_MAX |-> IF i <= dlc THEN msg.data[i] ELSE 0]]

\* lines 296-306: the wire frame; data bytes past can_dlc are not written
BuildTxFrame(msg) ==
  LET dlc == IF msg.len <= CAN_DATA_LEN_MAX THEN msg.len ELSE CAN_DATA_LEN_MAX IN
  [can_id |-> IF msg.ext THEN OrFlag(msg.id, CAN_EFF_FLAG) ELSE msg.id,
   can_dlc |-> dlc,
   data |-> [i \in 1..CAN_DATA_LEN_MAX |-> IF i <= dlc THEN msg.data[i] ELSE 0]]

\* lines 281-288
CanTransmit_Call ==
  /\ txPc = "idle"
  /\ \E msg \in TxMsgs : txArg' = msg
  /\ txPc' = "check"
  /\ txResult' = FALSE /\ txOutcome' = "none" /\ txCbCalls' = 0
  /\ UNCHANGED <<txMsg, canTxFrame, txSawConnected, canData, canSocketMutex, osVars,
                 mainVars, rxVars, afterDisconnect>>
  /\ UNCHANGED <<busSent, shellVars, timerVars>>

\* mutant of TransmitAllowed: the connection flag is not checked
TransmitAllowed_Always == TRUE

\* line 291: the connection state the call acts on
TransmitAllowed == canConnected

\* lines 291-306
CanTransmit_Check ==
  /\ txPc = "check"
  /\ txSawConnected' = canConnected
  /\ IF TransmitAllowed
       THEN /\ txMsg' = txArg
            /\ canTxFrame' = BuildTxFrame(txArg)
            /\ txPc' = "lock"
       ELSE /\ txPc' = "ret"
            /\ UNCHANGED <<txMsg, canTxFrame>>
  /\ UNCHANGED <<txArg, txResult, txOutcome, txCbCalls, canData, canSocketMutex, osVars,
                 mainVars, rxVars, afterDisconnect>>
  /\ UNCHANGED <<busSent, shellVars, timerVars>>

\* line 309
CanTransmit_Lock ==
  /\ txPc = "lock"
  /\ CanMutexLock("tx")
  /\ txPc' = "write"
  /\ UNCHANGED <<txArg, txMsg, canTxFrame, txResult, txSawConnected, txOutcome, txCbCalls,
                 canData, osVars, mainVars, rxVars, afterDisconnect>>
  /\ UNCHANGED <<busSent, shellVars, timerVars>>

\* write(): the number of bytes transferred, as "full", "short" or "failed";
\* only an open, bound socket can take the whole frame
WriteOutcomes == IF canSocket \in openFds /\ sockBound
                   THEN {"full", "short", "failed"}
                   ELSE {"failed"}

\* mutant of WriteResult: a short write counts as sent
WriteResult_AcceptShort(outcome) == outcome \in {"full", "short"}

\* lines 312-317: the result of CanTransmit for an outcome of write()
WriteResult(outcome) == outcome = "full"

\* lines 311-317
CanTransmit_Write ==
  /\ txPc = "write"
  /\ txMsg' = [txMsg EXCEPT !.timestamp = UtilSystemTime - canStartTime]
  /\ \E outcome \in WriteOutcomes :
       /\ txOutcome' = outcome
       /\ txResult' = WriteResult(outcome)
  /\ txPc' = "unlock"
  /\ UNCHANGED <<txArg, canTxFrame, txSawConnected, txCbCalls, canData, canSocketMutex,
                 osVars, mainVars, rxVars, afterDisconnect>>
  /\ UNCHANGED <<busSent, shellVars, timerVars>>

\* line 318
CanTransmit_Unlock ==
  /\ txPc = "unlock"
  /\ CanMutexUnlock("tx")
  /\ txPc' = "confirm"
  /\ UNCHANGED <<txArg, txMsg, canTxFrame, txResult, txSawConnected, txOutcome, txCbCalls,
                 canData, osVars, mainVars, rxVars, afterDisconnect>>
  /\ UNCHANGED <<busSent, shellVars, timerVars>>

\* lines 322-328: canTransmittedCallback(&txMsg) is entered
CanTransmit_Confirm ==
  /\ txPc \in {"confirm"}
  /\ IF txResult /\ canTransmittedCallback # NULL
       THEN txPc' = "callback" /\ txCbCalls' = txCbCalls + 1
       ELSE txPc' = "ret" /\ UNCHANGED txCbCalls
  /\ UNCHANGED <<txArg, txMsg, canTxFrame, txResult, txSawConnected, txOutcome,
                 canData, canSocketMutex, osVars, mainVars, rxVars, afterDisconnect>>
  /\ UNCHANGED <<busSent, shellVars, timerVars>>

\* line 326: the callback returns
CanTransmit_CallbackReturn ==
  /\ txPc = "callback"
  /\ txPc' = "ret"
  /\ UNCHANGED <<txArg, txMsg, canTxFrame, txResult, txSawConnected, txOutcome, txCbCalls,
                 canData, canSocketMutex, osVars, mainVars, rxVars, afterDisconnect>>
  /\ UNCHANGED <<busSent, shellVars, timerVars>>

\* line 331: the caller has the result; the locals of the call are gone
CanTransmit_Return ==
  /\ txPc = "ret"
  /\ txPc' = "idle"
  /\ txArg' = NoMsg /\ txMsg' = NoMsg /\ canTxFrame' = NoFrame
  /\ txResult' = FALSE /\ txSawConnected' = FALSE /\ txOutcome' = "none" /\ txCbCalls' = 0
  /\ UNCHANGED <<canData, canSocketMutex, osVars, mainVars, rxVars, afterDisconnect>>
  /\ UNCHANGED <<busSent, shellVars, timerVars>>

(***************************************************************************)
(*                         The timer engine: timer.c                       *)
(***************************************************************************)
\* addresses malloc can return for a tTimerNode
\* the addresses malloc can return: the heap the engine was started with
NodeIds == DOMAIN tmr
\* the callbacks an application passes to TimerCreate
TimerCallbacks == {NULL, "OnTimer"}
Threads == {"app", "cb"}
TimerPeriodsMs == {1}

\* contents of a tTimerNode that is not allocated
FreeNode == [callbackFcn |-> NULL, running |-> FALSE, startTime |-> 0, period_us |-> 0,
             nextNode |-> NIL]

\* what a read of released memory can yield
GarbageNodes == [callbackFcn : {NULL, "OnTimer"}, running : BOOLEAN, startTime : {0},
                 period_us : {0}, nextNode : NodeIds \cup {NIL}]

\* the records a read of *p can yield
Deref(p) == IF p \in live THEN {tmr[p]} ELSE GarbageNodes

NoCall == [pc |-> "idle", fn |-> "none", timer |-> NIL, now |-> 0]

\* period * 1000 in uint32_t (line 273), computed in 16-bit halves
PeriodUs(ms) ==
  LET mh == ms \div 65536
      ml == ms % 65536
      lo == ml * 1000
      hi == (((mh * 1000) % 65536) + (lo \div 65536)) % 65536
  IN (hi * 65536) + (lo % 65536)

\* (now - startTime) > period_us in uint64_t (lines 303, 369): when startTime is
\* later than now the difference wraps to more than any 32-bit period
Elapsed(t, startTime, period_us) ==
  IF t >= startTime THEN t - startTime > period_us ELSE TRUE

\* the nodes of the list from p on, following nextNode
RECURSIVE ListFrom(_, _)
ListFrom(p, fuel) ==
  IF p = NIL \/ fuel = 0 THEN <<>> ELSE <<p>> \o ListFrom(tmr[p].nextNode, fuel - 1)

Registry == ListFrom(timerList, Cardinality(NodeIds))
InRegistry(h) == \E i \in 1..Len(Registry) : Registry[i] = h

(***************************************************************************)
(* TimerInit: the state after construction; thrd_create may fail.          *)
(***************************************************************************)
TimerInitHeap(addresses) ==
  /\ timerStopPollingThread = FALSE
  /\ timerList = NIL
  /\ tmr = [n \in addresses |-> FreeNode]
  /\ live = {}
  /\ timerListMutex = "free"
  /\ \/ timerPollingThreadRunning = TRUE /\ timerPollingThreadId = 1 /\ pollPc = "loop"
     \/ timerPollingThreadRunning = FALSE /\ timerPollingThreadId = 0 /\ pollPc = "none"
  /\ aTimer = NIL /\ now = 0 /\ callbackFcnCopy = NULL
  /\ call = [t \in Threads |-> NoCall]
  /\ fired = {}

TimerInit == TimerInitHeap(1..MaxTimers)

\* the timer engine before TimerInit
TimerNotStarted ==
  /\ timerStopPollingThread = FALSE
  /\ timerList = NIL
  /\ tmr = [n \in 1..MaxTimers |-> FreeNode]
  /\ live = {}
  /\ timerListMutex = "free"
  /\ timerPollingThreadRunning = FALSE /\ timerPollingThreadId = 0 /\ pollPc = "none"
  /\ aTimer = NIL /\ now = 0 /\ callbackFcnCopy = NULL
  /\ call = [t \in Threads |-> NoCall]
  /\ fired = {}

\* the variables of the transport driver and of main, which the timer engine
\* never touches
canQuiet == <<canData, canSocketMutex, openFds, sockBound, rxQueue, busSent, mainVars, rxVars,
              txVars, afterDisconnect, shellVars>>

\* the system clock advances by one millisecond, up to limit milliseconds
TickWithin(limit) ==
  /\ clock < ClockStart + limit * PeriodUs(1)
  /\ clock' = clock + PeriodUs(1)
  /\ UNCHANGED <<canQuiet, timerVars>>

Tick == TickWithin(MaxTicks)

(***************************************************************************)
(* The timer API.  A call is made by the foreground thread ("app") or by   *)
(* the expiry callback that is running on the polling thread ("cb").  The  *)
(* body of each function runs between mtx_lock and mtx_unlock.             *)
(***************************************************************************)
CanCall(t) ==
  /\ call[t].pc = "idle"
  /\ t = "cb" => pollPc = "callback"

\* line 290: TimerRestart reads the clock before it waits for the lock
TimerRestart_Call(t) ==
  /\ CanCall(t)
  /\ \E h \in live :
       call' = [call EXCEPT ![t] = [NoCall EXCEPT !.pc = "lock", !.fn = "TimerRestart",
                                                  !.timer = h, !.now = UtilSystemTime]]
  /\ UNCHANGED <<timerData, timerListMutex, pollVars, clock, canQuiet, fired>>

\* thread t is in fn with the registry lock; the other functions do nothing
\* before mtx_lock, so their call begins when the lock is theirs
InBody(t, fn) ==
  /\ IF fn = "TimerRestart"
       THEN call[t].pc = "lock" /\ call[t].fn = fn
       ELSE CanCall(t)
  /\ timerListMutex = "free"

\* the call returns, the lock released
Returned(t) == call' = [call EXCEPT ![t] = NoCall]

\* the body of TimerCreate or TimerDelete is done and the lock released: the
\* call is about to return; timer is the handle TimerDelete was called with or
\* the result of TimerCreate
Returning(t, fn, timer) ==
  call' = [call EXCEPT ![t] = [NoCall EXCEPT !.pc = "ret", !.fn = fn, !.timer = timer]]

\* the caller of TimerCreate or TimerDelete goes on after the call
TimerReturn(t) ==
  /\ call[t].pc = "ret"
  /\ call' = [call EXCEPT ![t] = NoCall]
  /\ UNCHANGED <<timerData, timerListMutex, pollVars, clock, canQuiet, fired>>

\* a write to the record at h; a record that was released is not the timer's
StoreNode(h, rec) == tmr' = IF h \in live THEN [tmr EXCEPT ![h] = rec] ELSE tmr

\* mutant of TimerCreate_Body: the new timer is created running
TimerCreate_Body_Running(t, callbackFcn, result) ==
  /\ CanCall(t)
  /\ IF callbackFcn = NULL \/ NodeIds \ live = {}
       THEN /\ result = NIL
            /\ UNCHANGED <<timerList, tmr, live>>
       ELSE /\ timerListMutex = "free"
            /\ result \in NodeIds \ live
            /\ tmr' = [tmr EXCEPT ![result] =
                         [callbackFcn |-> callbackFcn, running |-> TRUE, startTime |-> 0,
                          period_us |-> 0, nextNode |-> timerList]]
            /\ timerList' = result
            /\ live' = live \cup {result}
  /\ Returning(t, "TimerCreate", result)
  /\ UNCHANGED <<timerPollingThreadId, timerPollingThreadRunning, timerStopPollingThread,
                 timerListMutex, pollVars, clock, canQuiet, fired>>

\* mutant of TimerCreate_Body: the new node is not linked into the list
TimerCreate_Body_Unlinked(t, callbackFcn, result) ==
  /\ CanCall(t)
  /\ IF callbackFcn = NULL \/ NodeIds \ live = {}
       THEN /\ result = NIL
            /\ UNCHANGED <<timerList, tmr, live>>
       ELSE /\ timerListMutex = "free"
            /\ result \in NodeIds \ live
            /\ tmr' = [tmr EXCEPT ![result] =
                         [callbackFcn |-> callbackFcn, running |-> FALSE, startTime |-> 0,
                          period_us |-> 0, nextNode |-> timerList]]
            /\ live' = live \cup {result}
            /\ UNCHANGED timerList
  /\ Returning(t, "TimerCreate", result)
  /\ UNCHANGED <<timerPollingThreadId, timerPollingThreadRunning, timerStopPollingThread,
                 timerListMutex, pollVars, clock, canQuiet, fired>>

\* lines 149-191: TimerCreate(callbackFcn) returning result.  Without a callback
\* nothing is done; malloc returns an unused address, or NULL when the heap has
\* none; the new node is linked in at the head of the list under the lock
TimerCreate_Body(t, callbackFcn, result) ==
  /\ CanCall(t)
  /\ IF callbackFcn = NULL \/ NodeIds \ live = {}
       THEN /\ result = NIL
            /\ UNCHANGED <<timerList, tmr, live>>
       ELSE /\ timerListMutex = "free"
            /\ result \in NodeIds \ live
            /\ tmr' = [tmr EXCEPT ![result] =
                         [callbackFcn |-> callbackFcn, running |-> FALSE, startTime |-> 0,
                          period_us |-> 0, nextNode |-> timerList]]
            /\ timerList' = result
            /\ live' = live \cup {result}
  /\ Returning(t, "TimerCreate", result)
  /\ UNCHANGED <<timerPollingThreadId, timerPollingThreadRunning, timerStopPollingThread,
                 timerListMutex, pollVars, clock, canQuiet, fired>>

TimerCreate(t) ==
  \E callbackFcn \in TimerCallbacks, result \in NodeIds \cup {NIL} :
    TimerCreate_Body(t, callbackFcn, result)

\* free(p)
Free(p) ==
  /\ live' = live \ {p}
  /\ tmr' = [n \in NodeIds |-> IF n = p THEN FreeNode ELSE tmr[n]]

\* mutant of TimerDelete_Body: unlinking a node that is not the head cuts the
\* list off behind its predecessor
TimerDelete_Body_CutsList(t, timer) ==
  /\ CanCall(t)
  /\ IF timer = NIL
       THEN UNCHANGED <<timerList, tmr, live>>
       ELSE /\ timerListMutex = "free"
            /\ LET delTimer == timer
                   prev == {a \in NodeIds : InRegistry(a) /\ tmr[a].nextNode = delTimer}
               IN IF timerList = NIL
                    THEN UNCHANGED <<timerList, tmr, live>>
                    ELSE IF timerList = delTimer
                      THEN /\ timerList' = tmr[delTimer].nextNode
                           /\ Free(delTimer)
                      ELSE IF prev # {}
                        THEN /\ live' = live \ {delTimer}
                             /\ tmr' = [n \in NodeIds |->
                                         IF n = delTimer THEN FreeNode
                                         ELSE IF n \in prev
                                           THEN [tmr[n] EXCEPT !.nextNode = NIL]
                                           ELSE tmr[n]]
                             /\ UNCHANGED timerList
                        ELSE UNCHANGED <<timerList, tmr, live>>
  /\ Returning(t, "TimerDelete", timer)
  /\ UNCHANGED <<timerPollingThreadId, timerPollingThreadRunning, timerStopPollingThread,
                 timerListMutex, pollVars, clock, canQuiet, fired>>

\* lines 199-248: TimerDelete(timer).  The node is looked up by its address
\* and only a node found in the list is unlinked and released
TimerDelete_Body(t, timer) ==
  /\ CanCall(t)
  /\ IF timer = NIL
       THEN UNCHANGED <<timerList, tmr, live>>
       ELSE /\ timerListMutex = "free"
            /\ LET delTimer == timer
                   prev == {a \in NodeIds : InRegistry(a) /\ tmr[a].nextNode = delTimer}
               IN IF timerList = NIL
                    THEN UNCHANGED <<timerList, tmr, live>>
                    ELSE IF timerList = delTimer
                      THEN /\ timerList' = tmr[delTimer].nextNode
                           /\ Free(delTimer)
                      ELSE IF prev # {}
                        THEN /\ live' = live \ {delTimer}
                             /\ tmr' = [n \in NodeIds |->
                                         IF n = delTimer THEN FreeNode
                                         ELSE IF n \in prev
                                           THEN [tmr[n] EXCEPT !.nextNode = tmr[delTimer].nextNode]
                                           ELSE tmr[n]]
                             /\ UNCHANGED timerList
                        ELSE UNCHANGED <<timerList, tmr, live>>
  /\ Returning(t, "TimerDelete", timer)
  /\ UNCHANGED <<timerPollingThreadId, timerPollingThreadRunning, timerStopPollingThread,
                 timerListMutex, pollVars, clock, canQuiet, fired>>

TimerDelete(t) == \E timer \in NodeIds \cup {NIL} : TimerDelete_Body(t, timer)

\* lines 269-276: TimerStart(timer, period) on thread t; with record, the
\* history notes that the timer has been armed
TimerStart_Arm(t, timer, period, record) ==
  /\ InBody(t, "TimerStart")
  /\ StoreNode(timer, [tmr[timer] EXCEPT !.startTime = UtilSystemTime,
                                         !.period_us = PeriodUs(period),
                                         !.running = TRUE])
  /\ fired' = IF record THEN fired \ {timer} ELSE fired
  /\ Returned(t)
  /\ UNCHANGED <<timerPollingThreadId, timerPollingThreadRunning, timerStopPollingThread,
                 timerList, live, timerListMutex, pollVars, clock, canQuiet>>

TimerStart_Body(t, timer, period) == TimerStart_Arm(t, timer, period, FALSE)

TimerStart(t) == \E h \in live, period \in TimerPeriodsMs : TimerStart_Body(t, h, period)

\* mutant of RestartTime: the arm time always moves on by one period
RestartTime_NoClamp(startTime, period_us, t) == startTime + period_us

\* mutant of RestartTime: the timer is rearmed from the time of the call
RestartTime_FromNow(startTime, period_us, t) == t

\* lines 301-307: the arm time after TimerRestart
RestartTime(startTime, period_us, t) ==
  LET advanced == startTime + period_us IN
  IF Elapsed(t, advanced, period_us) THEN t - period_us ELSE advanced

\* lines 299-310
TimerRestart(t) ==
  /\ InBody(t, "TimerRestart")
  /\ LET h == call[t].timer IN
       StoreNode(h, [tmr[h] EXCEPT
                       !.startTime = RestartTime(tmr[h].startTime, tmr[h].period_us,
                                                 call[t].now),
                       !.running = TRUE])
  /\ Returned(t)
  /\ UNCHANGED <<timerPollingThreadId, timerPollingThreadRunning, timerStopPollingThread,
                 timerList, live, timerListMutex, pollVars, clock, canQuiet, fired>>

\* mutant of TimerStop_Body: the timer is put back as TimerCreate made it
TimerStop_Body_Reset(t, timer) ==
  /\ InBody(t, "TimerStop")
  /\ StoreNode(timer, [tmr[timer] EXCEPT !.running = FALSE, !.startTime = 0,
                                         !.period_us = 0])
  /\ Returned(t)
  /\ UNCHANGED <<timerPollingThreadId, timerPollingThreadRunning, timerStopPollingThread,
                 timerList, live, timerListMutex, pollVars, clock, canQuiet, fired>>

\* lines 331-335: TimerStop(timer) on thread t
TimerStop_Body(t, timer) ==
  /\ InBody(t, "TimerStop")
  /\ StoreNode(timer, [tmr[timer] EXCEPT !.running = FALSE])
  /\ Returned(t)
  /\ UNCHANGED <<timerPollingThreadId, timerPollingThreadRunning, timerStopPollingThread,
                 timerList, live, timerListMutex, pollVars, clock, canQuiet, fired>>

TimerStop(t) == \E h \in live : TimerStop_Body(t, h)

(***************************************************************************)
(* TimerTerminate, called on the foreground thread.                        *)
(***************************************************************************)
TimerTerminate_Call ==
  /\ CanCall("app")
  /\ call' = [call EXCEPT !["app"] = [NoCall EXCEPT !.pc = "tStop", !.fn = "TimerTerminate"]]
  /\ UNCHANGED <<timerData, timerListMutex, pollVars, clock, canQuiet, fired>>

\* mutant of TimerStopNeeded: the polling thread is never signalled and joined
TimerStopNeeded_Never == FALSE

\* line 104: the thread is signalled and joined only when the flag is set
TimerStopNeeded == timerPollingThreadRunning

\* lines 104-107
TimerTerminate_Stop ==
  /\ call["app"].pc = "tStop"
  /\ IF TimerStopNeeded
       THEN /\ timerStopPollingThread' = TRUE
            /\ call' = [call EXCEPT !["app"].pc = "tJoin"]
       ELSE /\ UNCHANGED timerStopPollingThread
            /\ call' = [call EXCEPT !["app"].pc = "tFree"]
  /\ UNCHANGED <<timerPollingThreadId, timerPollingThreadRunning, timerList, tmr, live,
                 timerListMutex, pollVars, clock, canQuiet, fired>>

\* line 109: thrd_join blocks until the thread has exited
TimerTerminate_Join ==
  /\ call["app"].pc = "tJoin"
  /\ pollPc = "exited"
  /\ pollPc' = "joined"
  /\ call' = [call EXCEPT !["app"].pc = "tFree"]
  /\ UNCHANGED <<timerData, timerListMutex, aTimer, now, callbackFcnCopy, clock,
                 canQuiet, fired>>

\* mutant of TimerTerminate_Free: only the head of the list is released
TimerTerminate_Free_HeadOnly ==
  /\ call["app"].pc = "tFree"
  /\ timerListMutex = "free"
  /\ live' = live \ {timerList}
  /\ tmr' = [n \in NodeIds |-> IF n = timerList THEN FreeNode ELSE tmr[n]]
  /\ timerList' = NIL
  /\ call' = [call EXCEPT !["app"].pc = "tDestroy"]
  /\ UNCHANGED <<timerPollingThreadId, timerPollingThreadRunning, timerStopPollingThread,
                 timerListMutex, pollVars, clock, canQuiet, fired>>

\* lines 113-129: every node of the list is released, under the lock
TimerTerminate_Free ==
  /\ call["app"].pc = "tFree"
  /\ timerListMutex = "free"
  /\ live' = live \ {Registry[i] : i \in 1..Len(Registry)}
  /\ tmr' = [n \in NodeIds |-> IF InRegistry(n) THEN FreeNode ELSE tmr[n]]
  /\ timerList' = NIL
  /\ call' = [call EXCEPT !["app"].pc = "tDestroy"]
  /\ UNCHANGED <<timerPollingThreadId, timerPollingThreadRunning, timerStopPollingThread,
                 timerListMutex, pollVars, clock, canQuiet, fired>>

\* lines 132-137
TimerTerminate_Destroy ==
  /\ call["app"].pc = "tDestroy"
  /\ timerListMutex' = "destroyed"
  /\ timerStopPollingThread' = FALSE
  /\ timerPollingThreadRunning' = FALSE
  /\ timerPollingThreadId' = 0
  /\ call' = [call EXCEPT !["app"].pc = "terminated"]
  /\ UNCHANGED <<timerList, tmr, live, pollVars, clock, canQuiet, fired>>

(***************************************************************************)
(* TimerPollingThread.                                                     *)
(***************************************************************************)
\* lines 354-357
TimerPollingThread_LoopCheck ==
  /\ pollPc = "loop"
  /\ IF timerStopPollingThread
       THEN \* line 402: the thread ends and its locals are gone
            /\ pollPc' = "exited"
            /\ aTimer' = NIL /\ now' = 0 /\ callbackFcnCopy' = NULL
       ELSE /\ pollPc' = "lock"
            /\ now' = UtilSystemTime
            /\ UNCHANGED <<aTimer, callbackFcnCopy>>
  /\ UNCHANGED <<timerData, timerListMutex, call, clock, canQuiet, fired>>

\* lines 359-361
TimerPollingThread_Lock ==
  /\ pollPc = "lock"
  /\ timerListMutex = "free"
  /\ timerListMutex' = "poll"
  /\ aTimer' = timerList
  /\ pollPc' = "visit"
  /\ UNCHANGED <<timerData, now, callbackFcnCopy, call, clock, canQuiet, fired>>

\* mutant of Expired: the running flag is not looked at
Expired_IgnoreRunning(node, t) ==
  /\ Elapsed(t, node.startTime, node.period_us)
  /\ node.callbackFcn # NULL

\* lines 366-377: the timer of record node is running, has timed out and has a
\* callback
Expired(node, t) ==
  /\ node.running
  /\ Elapsed(t, node.startTime, node.period_us)
  /\ node.callbackFcn # NULL

\* lines 363-389 with the lock held: at the end of the list the lock is released
\* (line 392; the sample of the clock is not used again); an expired timer has its callback copied and entered with the lock
\* released (lines 372-382); any other node is passed (line 389); with record,
\* the history notes the timer whose callback is entered
PollVisit(record) ==
  /\ pollPc = "visit"
  /\ IF aTimer = NIL
       THEN /\ timerListMutex' = "free"
            /\ pollPc' = "sleep"
            /\ now' = 0
            /\ UNCHANGED <<aTimer, callbackFcnCopy, fired>>
       ELSE \E node \in Deref(aTimer) :
              IF Expired(node, now)
                THEN /\ callbackFcnCopy' = node.callbackFcn
                     /\ timerListMutex' = "free"
                     /\ pollPc' = "callback"
                     /\ fired' = IF record THEN fired \cup ({aTimer} \cap live) ELSE fired
                     /\ UNCHANGED <<aTimer, now>>
                ELSE /\ aTimer' = node.nextNode
                     /\ UNCHANGED <<pollPc, timerListMutex, callbackFcnCopy, now, fired>>
  /\ UNCHANGED <<timerData, call, clock, canQuiet>>

TimerPollingThread_Visit == PollVisit(FALSE)

\* mutant of TimerPollingThread_CallbackReturn: the pass goes on while the
\* callback is still in a call of the engine
TimerPollingThread_CallbackReturn_Early ==
  /\ pollPc = "callback"
  /\ pollPc' = "relock"
  /\ callbackFcnCopy' = NULL
  /\ UNCHANGED <<timerData, timerListMutex, aTimer, now, call, clock, canQuiet, fired>>

\* line 382: the callback returns
TimerPollingThread_CallbackReturn ==
  /\ pollPc = "callback"
  /\ call["cb"].pc = "idle"
  /\ pollPc' = "relock"
  /\ callbackFcnCopy' = NULL
  /\ UNCHANGED <<timerData, timerListMutex, aTimer, now, call, clock, canQuiet, fired>>

\* line 384
TimerPollingThread_Relock ==
  /\ pollPc = "relock"
  /\ timerListMutex = "free"
  /\ timerListMutex' = "poll"
  /\ pollPc' = "advance"
  /\ UNCHANGED <<timerData, aTimer, now, callbackFcnCopy, call, clock, canQuiet, fired>>

\* line 389, after a callback: aTimer = aTimer->nextNode
TimerPollingThread_Advance ==
  /\ pollPc = "advance"
  /\ \E node \in Deref(aTimer) : aTimer' = node.nextNode
  /\ pollPc' = "visit"
  /\ UNCHANGED <<timerData, timerListMutex, now, callbackFcnCopy, call, clock,
                 canQuiet, fired>>

\* line 398
TimerPollingThread_Sleep ==
  /\ pollPc = "sleep"
  /\ pollPc' = "loop"
  /\ UNCHANGED <<timerData, timerListMutex, aTimer, now, callbackFcnCopy, call,
                 clock, canQuiet, fired>>

(***************************************************************************)
(* The timer engine with the foreground thread and the polling thread.     *)
(***************************************************************************)
CanNotConnected ==
  /\ CanInit /\ CanEnvInit /\ AppNotRunning
  /\ canReceivedCallback = NULL /\ canTransmittedCallback = NULL

InitTimer == TimerInit /\ CanNotConnected

NextTimer ==
  \/ Tick
  \/ \E t \in Threads : TimerCreate(t)
  \/ \E t \in Threads : TimerDelete(t)
  \/ \E t \in Threads : TimerStart(t)
  \/ \E t \in Threads : TimerRestart_Call(t)
  \/ \E t \in Threads : TimerRestart(t)
  \/ \E t \in Threads : TimerStop(t)
  \/ \E t \in Threads : TimerReturn(t)
  \/ TimerTerminate_Call \/ TimerTerminate_Stop \/ TimerTerminate_Join
  \/ TimerTerminate_Free \/ TimerTerminate_Destroy
  \/ TimerPollingThread_LoopCheck \/ TimerPollingThread_Lock \/ TimerPollingThread_Visit
  \/ TimerPollingThread_CallbackReturn \/ TimerPollingThread_Relock
  \/ TimerPollingThread_Advance \/ TimerPollingThread_Sleep

SpecTimer == InitTimer /\ [][NextTimer]_vars

(***************************************************************************)
(* The registry of the timer engine on a heap of several records: timers   *)
(* are created, deleted, started and stopped while the polling thread      *)
(* walks the list, and the engine is terminated; the clock stands still,   *)
(* so no timer expires.                                                    *)
(***************************************************************************)
InitRegistry == TimerInitHeap(1..MaxNodes) /\ CanNotConnected

NextRegistry ==
  \/ \E t \in Threads : TimerCreate(t)
  \/ \E t \in Threads : TimerDelete(t)
  \/ \E t \in Threads : TimerStart(t)
  \/ \E t \in Threads : TimerStop(t)
  \/ \E t \in Threads : TimerReturn(t)
  \/ TimerTerminate_Call \/ TimerTerminate_Stop \/ TimerTerminate_Join
  \/ TimerTerminate_Free \/ TimerTerminate_Destroy
  \/ TimerPollingThread_LoopCheck \/ TimerPollingThread_Lock \/ TimerPollingThread_Visit
  \/ TimerPollingThread_Sleep

SpecRegistry == InitRegistry /\ [][NextRegistry]_vars

(***************************************************************************)
(* A timer that expires: the application creates, starts, restarts and     *)
(* stops one timer and its callback does the same, while the clock         *)
(* advances and the polling thread fires the timer; the timer is never     *)
(* deleted.  A period of 4294968 ms is one whose product with 1000 does    *)
(* not fit uint32_t.                                                       *)
(***************************************************************************)
StartPeriodsMs == {1, 4294968}

InitPeriodic == TimerInitHeap({1}) /\ CanNotConnected

NextPeriodic ==
  \/ TickWithin(MaxLateTicks)
  \/ TimerCreate("app")
  \/ TimerReturn("app")
  \/ \E t \in Threads, h \in live, period \in StartPeriodsMs : TimerStart_Body(t, h, period)
  \/ \E t \in Threads : TimerRestart_Call(t)
  \/ \E t \in Threads : TimerRestart(t)
  \/ \E t \in Threads : TimerStop(t)
  \/ TimerPollingThread_LoopCheck \/ TimerPollingThread_Lock \/ TimerPollingThread_Visit
  \/ TimerPollingThread_CallbackReturn \/ TimerPollingThread_Relock
  \/ TimerPollingThread_Advance \/ TimerPollingThread_Sleep

SpecPeriodic == InitPeriodic /\ [][NextPeriodic]_vars

(***************************************************************************)
(* Several timers that expire in one pass: the application creates and     *)
(* starts timers, the clock advances and the polling thread fires them;    *)
(* the callbacks call no timer function.                                   *)
(***************************************************************************)
InitOrder == TimerInitHeap(1..MaxExpiring) /\ CanNotConnected

NextOrder ==
  \/ Tick
  \/ TimerCreate("app")
  \/ TimerReturn("app")
  \/ TimerStart("app")
  \/ TimerPollingThread_LoopCheck \/ TimerPollingThread_Lock \/ TimerPollingThread_Visit
  \/ TimerPollingThread_CallbackReturn \/ TimerPollingThread_Relock
  \/ TimerPollingThread_Advance \/ TimerPollingThread_Sleep

SpecOrder == InitOrder /\ [][NextOrder]_vars

(***************************************************************************)
(* Timers whose callbacks call no timer function, with the history of the  *)
(* expiries kept: the foreground thread creates and starts timers.         *)
(***************************************************************************)
TimerStart_Recorded(t) ==
  \E h \in live, period \in TimerPeriodsMs : TimerStart_Arm(t, h, period, TRUE)

TimerPollingThread_Visit_Recorded == PollVisit(TRUE)

NextOneShot ==
  \/ Tick
  \/ TimerCreate("app") \/ TimerReturn("app") \/ TimerStart_Recorded("app")
  \/ TimerPollingThread_LoopCheck \/ TimerPollingThread_Lock
  \/ TimerPollingThread_Visit_Recorded
  \/ TimerPollingThread_CallbackReturn \/ TimerPollingThread_Relock
  \/ TimerPollingThread_Advance \/ TimerPollingThread_Sleep

SpecOneShot == InitOrder /\ [][NextOneShot]_vars

\* the polling thread is scheduled again and again, and a callback returns
FairPolling ==
  /\ WF_vars(TimerPollingThread_LoopCheck) /\ WF_vars(TimerPollingThread_Lock)
  /\ WF_vars(TimerPollingThread_Visit) /\ WF_vars(TimerPollingThread_CallbackReturn)
  /\ WF_vars(TimerPollingThread_Relock) /\ WF_vars(TimerPollingThread_Advance)
  /\ WF_vars(TimerPollingThread_Sleep)

SpecFire == InitOrder /\ [][NextOrder]_vars /\ FairPolling

\* as NextOrder, and a callback may delete timers (TimerDelete from a callback)
NextFireDelete ==
  \/ NextOrder
  \/ TimerDelete("cb") \/ TimerReturn("cb")

\* every callback returns, and the polling thread gets the list lock
SpecFireDelete ==
  /\ InitOrder /\ [][NextFireDelete]_vars
  /\ FairPolling /\ WF_vars(TimerReturn("cb"))
  /\ SF_vars(TimerPollingThread_CallbackReturn)
  /\ SF_vars(TimerPollingThread_Lock) /\ SF_vars(TimerPollingThread_Relock)

(***************************************************************************)
(* One timer that the foreground thread starts and stops and that its own  *)
(* callback restarts (ex3.c: the key handler and OnTimer500ms).            *)
(***************************************************************************)
NextStop ==
  \/ TickWithin(MaxLateTicks)
  \/ TimerCreate("app") \/ TimerReturn("app")
  \/ TimerStart("app") \/ TimerStop("app")
  \/ TimerRestart_Call("cb") \/ TimerRestart("cb")
  \/ TimerPollingThread_LoopCheck \/ TimerPollingThread_Lock \/ TimerPollingThread_Visit
  \/ TimerPollingThread_CallbackReturn \/ TimerPollingThread_Relock
  \/ TimerPollingThread_Advance \/ TimerPollingThread_Sleep

SpecStop == InitPeriodic /\ [][NextStop]_vars

(***************************************************************************)
(* The transport driver with its three threads.                            *)
(***************************************************************************)
InitCan == CanInit /\ CanEnvInit /\ AppNotRunning /\ TimerNotStarted

NextCan ==
  \/ CanDisconnect_Call \/ CanDisconnect_Enter \/ CanDisconnect_Stop
  \/ CanDisconnect_Join \/ CanDisconnect_Close \/ CanDisconnect_Reset
  \/ CanConnect_Call \/ CanConnect_Socket \/ CanConnect_Ioctl \/ CanConnect_Fcntl
  \/ CanConnect_Bind \/ CanConnect_ThrdCreate \/ CanConnect_Return
  \/ CanTerminate_Call \/ CanTerminate_Destroy
  \/ CanEventThread_LoopCheck \/ CanEventThread_Lock \/ CanEventThread_Read
  \/ CanEventThread_Unlock \/ CanEventThread_Process \/ CanEventThread_CallbackReturn
  \/ CanEventThread_Sleep \/ BusFrameArrives
  \/ CanTransmit_Call \/ CanTransmit_Check \/ CanTransmit_Lock \/ CanTransmit_Write
  \/ CanTransmit_Unlock \/ CanTransmit_Confirm \/ CanTransmit_CallbackReturn
  \/ CanTransmit_Return

SpecCan == InitCan /\ [][NextCan]_vars


(***************************************************************************)
(* The connected driver on a loopback interface: one CanTransmit call,     *)
(* whose frame the interface hands back to the receive queue.              *)
(***************************************************************************)
\* the state after CanInit and a successful CanConnect, before any frame
Connected ==
  /\ canReceivedCallback \in {NULL, "OnMessage"}
  /\ canTransmittedCallback \in {NULL, "OnTransmitted"}
  /\ canSocket = Min(Fds) /\ openFds = {Min(Fds)} /\ sockBound = TRUE
  /\ canSocketMutex = "free"
  /\ canEventThreadId = 1 /\ canEventThreadRunning = TRUE /\ canStopEventThread = FALSE
  /\ canStartTime = ClockStart /\ clock = ClockStart
  /\ canConnected = TRUE
  /\ rxQueue = <<>> /\ busSent = 0
  /\ mainPc = "idle" /\ mainFn = "CanConnect" /\ mainResult = TRUE
  /\ rxPc = "loop" /\ msgReceived = FALSE /\ canRxFrame = NoFrame /\ rxMsg = NoMsg
  /\ rxThreads = 1
  /\ afterDisconnect = FALSE
  /\ AppNotRunning

\* no CanTransmit call in progress
TransmitIdle ==
  /\ txPc = "idle" /\ txArg = NoMsg /\ txMsg = NoMsg /\ canTxFrame = NoFrame
  /\ txResult = FALSE /\ txSawConnected = FALSE /\ txOutcome = "none" /\ txCbCalls = 0

\* tCanMsg values at and beyond the limits of the identifier and the length
CodecMsgs ==
  { [id |-> Word(t, l), ext |-> e, len |-> n, data |-> d, timestamp |-> 0] :
      t \in {0, CAN_ERR_FLAG, CAN_RTR_FLAG, CAN_EFF_FLAG},
      l \in {0, 1009, 2047, 2048, 536870911},
      e \in BOOLEAN,
      n \in (0..MaxTxLen) \cup {255},
      d \in {Bytes8(<<0, 255>>), Bytes8(<<1, 2, 3, 4, 5, 6, 7, 8>>)} }

\* CanTransmit(&msg) has been called (lines 281-288) on the connected driver
InitCodec ==
  /\ Connected /\ TimerNotStarted
  /\ txPc = "check" /\ txArg \in CodecMsgs /\ txMsg = NoMsg /\ canTxFrame = NoFrame
  /\ txResult = FALSE /\ txSawConnected = FALSE /\ txOutcome = "none" /\ txCbCalls = 0

\* the interface queues the frame that write() took on the socket
LoopbackFrameArrives ==
  /\ txOutcome = "full"
  /\ sockBound
  /\ Len(rxQueue) < MaxQueue
  /\ rxQueue' = Append(rxQueue, canTxFrame)
  /\ UNCHANGED <<openFds, sockBound, clock, canData, canSocketMutex, mainVars, rxVars,
                 txVars, afterDisconnect>>
  /\ UNCHANGED <<busSent, shellVars, timerVars>>

NextCodec ==
  \/ CanTransmit_Check \/ CanTransmit_Lock \/ CanTransmit_Write
  \/ CanTransmit_Unlock \/ CanTransmit_Confirm \/ CanTransmit_CallbackReturn
  \/ LoopbackFrameArrives
  \/ CanEventThread_LoopCheck \/ CanEventThread_Lock \/ CanEventThread_Read
  \/ CanEventThread_Unlock \/ CanEventThread_Process \/ CanEventThread_CallbackReturn
  \/ CanEventThread_Sleep

SpecCodec == InitCodec /\ [][NextCodec]_vars

(***************************************************************************)
(* The connected driver in steady state: a node of the bus sends numbered  *)
(* frames of every kind while the application calls CanTransmit.           *)
(***************************************************************************)
\* the n-th frame of the sending node: n is in the identifier and the data,
\* kind is the value of the three flag bits
NumberedFrame(n, kind) ==
  [can_id |-> Word(kind, n), can_dlc |-> 1, data |-> Bytes8(<<n>>)]

\* the kinds of frame the node sends: data frames with a standard and with an
\* extended identifier, remote requests of both, error frames
BusKinds == {0, CAN_EFF_FLAG, CAN_RTR_FLAG, CAN_EFF_FLAG + CAN_RTR_FLAG, CAN_ERR_FLAG}

InitBus == Connected /\ TransmitIdle /\ TimerNotStarted

\* the socket queues the next frame of the sending node
BusNodeSends ==
  /\ busSent < MaxFrames
  /\ sockBound
  /\ Len(rxQueue) < MaxQueue
  /\ busSent' = busSent + 1
  /\ \E kind \in BusKinds : rxQueue' = Append(rxQueue, NumberedFrame(busSent + 1, kind))
  /\ UNCHANGED <<openFds, sockBound, clock, canData, canSocketMutex, mainVars, rxVars,
                 txVars, afterDisconnect>>
  /\ UNCHANGED <<shellVars, timerVars>>

NextBus ==
  \/ BusNodeSends
  \/ CanEventThread_LoopCheck \/ CanEventThread_Lock \/ CanEventThread_Read
  \/ CanEventThread_Unlock \/ CanEventThread_Process \/ CanEventThread_CallbackReturn
  \/ CanEventThread_Sleep
  \/ CanTransmit_Call \/ CanTransmit_Check \/ CanTransmit_Lock \/ CanTransmit_Write
  \/ CanTransmit_Unlock \/ CanTransmit_Confirm \/ CanTransmit_CallbackReturn
  \/ CanTransmit_Return

SpecBus == InitBus /\ [][NextBus]_vars

(***************************************************************************)
(* Teardown of a connected driver: CanDisconnect is called while the       *)
(* receive thread runs and the bus goes on queueing frames.  The receive   *)
(* thread and the foreground thread inside CanDisconnect are scheduled     *)
(* fairly and the receive callback returns; the bus and the caller of      *)
(* CanDisconnect are free to act or not.                                   *)
(***************************************************************************)
NextTeardown ==
  \/ CanDisconnect_Call \/ CanDisconnect_Enter \/ CanDisconnect_Stop
  \/ CanDisconnect_Join \/ CanDisconnect_Close \/ CanDisconnect_Reset
  \/ BusFrameArrives
  \/ CanEventThread_LoopCheck \/ CanEventThread_Lock \/ CanEventThread_Read
  \/ CanEventThread_Unlock \/ CanEventThread_Process
  \/ CanEventThread_CallbackReturn \/ CanEventThread_Sleep

FairTeardown ==
  /\ WF_vars(CanDisconnect_Enter) /\ WF_vars(CanDisconnect_Stop)
  /\ WF_vars(CanDisconnect_Join) /\ WF_vars(CanDisconnect_Close)
  /\ WF_vars(CanDisconnect_Reset)
  /\ WF_vars(CanEventThread_LoopCheck) /\ WF_vars(CanEventThread_Lock)
  /\ WF_vars(CanEventThread_Read) /\ WF_vars(CanEventThread_Unlock)
  /\ WF_vars(CanEventThread_Process) /\ WF_vars(CanEventThread_CallbackReturn)
  /\ WF_vars(CanEventThread_Sleep)

SpecTeardown == InitBus /\ [][NextTeardown]_vars /\ FairTeardown

(***************************************************************************)
(* caplin.c: main, the application shell, with the weak (empty) hooks of   *)
(* caplin.c.  appPc is the statement main is at ("in" a driver function    *)
(* while the foreground thread runs it) and appCalls the calls main has    *)
(* made, in order.                                                         *)
(***************************************************************************)
\* main at line 100: command line parsed, nothing initialised
InitShell ==
  /\ CanInit /\ canReceivedCallback = NULL /\ canTransmittedCallback = NULL
  /\ CanEnvInit /\ TimerNotStarted
  /\ appExitProgram = FALSE /\ appArgHelp \in BOOLEAN
  /\ appPc = "start" /\ appCalls = <<>>

\* main makes the call fn and goes on to statement next
Calls(fn, next) ==
  /\ appCalls' = Append(appCalls, fn)
  /\ appPc' = next
  /\ UNCHANGED <<appExitProgram, appArgHelp>>

\* lines 101-107: with -h the usage is shown and main returns
main_Help ==
  /\ appPc = "start" /\ appArgHelp
  /\ appPc' = "returned"
  /\ UNCHANGED <<appExitProgram, appArgHelp, appCalls, canVars, busSent, timerVars>>

\* lines 110-117: TimerInit (thrd_create may fail), KeysInit,
\* CanInit(OnMessage, NULL), signal
main_InitDrivers ==
  /\ appPc = "start" /\ ~appArgHelp
  /\ timerStopPollingThread' = FALSE
  /\ timerList' = NIL
  /\ timerListMutex' = "free"
  /\ \/ timerPollingThreadRunning' = TRUE /\ timerPollingThreadId' = 1 /\ pollPc' = "loop"
     \/ timerPollingThreadRunning' = FALSE /\ timerPollingThreadId' = 0 /\ pollPc' = "none"
  /\ canReceivedCallback' = "OnMessage"
  /\ canTransmittedCallback' = NULL
  /\ canSocket' = CAN_INVALID_SOCKET
  /\ canEventThreadId' = 0
  /\ canEventThreadRunning' = FALSE
  /\ canStopEventThread' = FALSE
  /\ canStartTime' = 0
  /\ canConnected' = FALSE
  /\ canSocketMutex' = "free"
  /\ appCalls' = appCalls \o <<"TimerInit", "KeysInit", "CanInit">>
  /\ appPc' = "OnPreStart"
  /\ UNCHANGED <<appExitProgram, appArgHelp, tmr, live, aTimer, now, callbackFcnCopy, call, fired,
                 osVars, mainVars, rxVars, txVars, afterDisconnect, busSent>>

\* lines 119, 134, 146, 153: a hook is called and returns
main_Hook ==
  /\ \/ appPc = "OnPreStart" /\ Calls("OnPreStart", "CanConnect")
     \/ appPc = "OnStart" /\ Calls("OnStart", "loop")
     \/ appPc = "OnStop" /\ Calls("OnStop", "CanDisconnect")
     \/ appPc = "OnPostStop" /\ Calls("OnPostStop", "TimerTerminate")
  /\ UNCHANGED <<canVars, busSent, timerVars>>

\* lines 121, 149, 156, 158: main calls into a driver
main_Call ==
  /\ \E fn \in {"CanConnect", "CanDisconnect", "TimerTerminate", "CanTerminate"} :
       appPc = fn /\ Calls(fn, "in" \o fn)
  /\ UNCHANGED <<canVars, busSent, timerVars>>

\* mutant of AfterConnect: the application is started whatever CanConnect said
AfterConnect_Always(result) == "OnStart"

\* lines 124-134: the application runs only if CanConnect returned true
AfterConnect(result) == IF result THEN "OnStart" ELSE "OnPostStop"

\* the driver function main is in has returned
FnReturned(fn) ==
  /\ appPc = "in" \o fn
  /\ IF fn = "TimerTerminate"
       THEN call["app"].pc = "terminated"
       ELSE mainFn = fn /\ mainPc = "idle"

\* lines 121-124, 149-153, 156-160: the driver function returns to main
main_Return ==
  /\ \/ FnReturned("CanConnect") /\ appPc' = AfterConnect(mainResult)
     \/ FnReturned("CanDisconnect") /\ appPc' = "OnPostStop"
     \/ FnReturned("TimerTerminate") /\ appPc' = "CanTerminate"
     \/ FnReturned("CanTerminate") /\ appPc' = "KeysTerminate"
  /\ UNCHANGED <<appExitProgram, appArgHelp, appCalls, canVars, busSent, timerVars>>

\* lines 137-143: the program loop ends when an exit has been requested
main_Loop ==
  /\ appPc = "loop"
  /\ appExitProgram
  /\ appPc' = "OnStop"
  /\ UNCHANGED <<appExitProgram, appArgHelp, appCalls, canVars, busSent, timerVars>>

\* lines 160-163
main_KeysTerminate ==
  /\ appPc = "KeysTerminate"
  /\ Calls("KeysTerminate", "returned")
  /\ UNCHANGED <<canVars, busSent, timerVars>>

\* AppKeyPressedCallback with the ESC key, or AppInterruptSignalHandler
AppExitRequest ==
  /\ appPc \notin {"none", "start", "returned"}
  /\ ~appExitProgram
  /\ appExitProgram' = TRUE
  /\ UNCHANGED <<appArgHelp, appPc, appCalls, canVars, busSent, timerVars>>

\* the foreground thread enters the driver function main has called
main_Enter ==
  \/ appPc = "inCanConnect" /\ mainFn # "CanConnect" /\ CanConnect_Call
  \/ appPc = "inCanDisconnect" /\ mainFn # "CanDisconnect" /\ CanDisconnect_Call
  \/ appPc = "inCanTerminate" /\ mainFn # "CanTerminate" /\ CanTerminate_Call
  \/ appPc = "inTimerTerminate" /\ TimerTerminate_Call

NextShell ==
  \/ main_Help \/ main_InitDrivers \/ main_Hook \/ main_Call \/ main_Enter
  \/ main_Return \/ main_Loop \/ main_KeysTerminate \/ AppExitRequest
  \/ CanDisconnect_Enter \/ CanDisconnect_Stop \/ CanDisconnect_Join
  \/ CanDisconnect_Close \/ CanDisconnect_Reset
  \/ CanConnect_Socket \/ CanConnect_Ioctl \/ CanConnect_Fcntl
  \/ CanConnect_Bind \/ CanConnect_ThrdCreate \/ CanConnect_Return
  \/ CanTerminate_Destroy
  \/ CanEventThread_LoopCheck \/ CanEventThread_Lock \/ CanEventThread_Read
  \/ CanEventThread_Unlock \/ CanEventThread_Process \/ CanEventThread_CallbackReturn
  \/ CanEventThread_Sleep \/ BusFrameArrives
  \/ TimerTerminate_Stop \/ TimerTerminate_Join \/ TimerTerminate_Free
  \/ TimerTerminate_Destroy
  \/ TimerPollingThread_LoopCheck \/ TimerPollingThread_Lock \/ TimerPollingThread_Visit
  \/ TimerPollingThread_Sleep

SpecShell == InitShell /\ [][NextShell]_vars

(***************************************************************************)
(*                               Properties                                *)
(***************************************************************************)
\* no receive thread exists, or the last one has been joined
NoReceiveThread == rxPc \in {"none", "joined"}
\* no polling thread exists, or it has been joined
NoPollingThread == pollPc \in {"none", "joined"}

\* C1: after CanDisconnect has returned, and until a later CanConnect starts a
\* receive thread, the receive thread has been signalled and joined, so the
\* receive callback is not invoked
C1_NoReceiveAfterDisconnect ==
  afterDisconnect => NoReceiveThread /\ rxThreads = 0

\* C1 witness: CanDisconnect has returned after joining a receive thread
C1_Witness ==
  /\ mainPc = "idle" /\ mainFn = "CanDisconnect"
  /\ afterDisconnect /\ rxPc = "joined"

\* C2: after CanDisconnect has returned (and until a later connect) no step enters
\* the transmit-confirmation callback, whatever a concurrent CanTransmit does
C2_NoTransmitCallbackAfterDisconnect ==
  [][afterDisconnect => ~(txPc # "callback" /\ txPc' = "callback")]_vars

\* C3: after TimerTerminate has returned the polling thread has been signalled
\* and joined, so no expiry callback is invoked
C3_NoExpiryAfterTerminate ==
  call["app"].pc = "terminated" => NoPollingThread /\ call["cb"].pc = "idle"

\* C3 witness: TimerTerminate has returned after joining the polling thread
C3_Witness ==
  /\ call["app"].pc = "terminated"
  /\ pollPc = "joined"

\* C4: with the registry lock held again after a callback, and for the rest of
\* the pass, the polling thread dereferences only nodes that are allocated
C4_PollingTouchesOnlyLiveTimers ==
  (pollPc \in {"advance", "visit"} /\ aTimer # NIL) => aTimer \in live

\* thread t is at an access to the transport handle: the receive thread at
\* read(), CanTransmit at write(), the foreground thread at close(), at the
\* system calls of CanConnect on the handle or at an assignment to canSocket
AtSocketAccess(t) ==
  CASE t = "rx" -> rxPc = "read"
    [] t = "tx" -> txPc = "write"
    [] t = "main" -> \/ mainPc \in {"dReset", "cSocket", "cIoctl", "cFcntl", "cBind"}
                     \/ mainPc = "dClose" /\ canSocket # CAN_INVALID_SOCKET

\* C5: a thread at an access to the transport handle holds the connection lock,
\* so no two threads are at an access to the handle at the same time
C5_SocketAccessUnderLock ==
  /\ \A t \in {"rx", "tx", "main"} :
       AtSocketAccess(t) => canSocketMutex \in {t, "destroyed"}
  /\ Cardinality({t \in {"rx", "tx", "main"} : AtSocketAccess(t)}) <= 1

\* C6: a CanTransmit that finds the driver not connected returns false, issues
\* no write and does not enter the transmit-confirmation callback
C6_TransmitWhileDisconnected ==
  (txPc = "ret" /\ ~txSawConnected) =>
     /\ txResult = FALSE
     /\ txOutcome = "none"
     /\ txCbCalls = 0

\* C6 witness: CanTransmit returns on a driver that was disconnected
C6_Witness ==
  /\ txPc = "ret" /\ ~txSawConnected
  /\ mainPc = "idle" /\ mainFn = "CanDisconnect" /\ rxPc = "joined"

\* CanConnect has returned false
ConnectFailed == mainPc = "idle" /\ mainFn = "CanConnect" /\ ~mainResult

\* C7: when CanConnect returns false no handle is open, the stored handle is the
\* invalid sentinel, the connected flag is false and no receive thread runs
C7_FailedConnectKeepsNothing ==
  ConnectFailed =>
     /\ openFds = {}
     /\ canSocket = CAN_INVALID_SOCKET
     /\ canConnected = FALSE
     /\ NoReceiveThread

\* CanConnect has returned true
ConnectSucceeded == mainPc = "idle" /\ mainFn = "CanConnect" /\ mainResult

\* C8: at most one receive thread and at most one open handle exist; CanConnect
\* opens the new handle only with the old thread joined and the old handle
\* closed; after a successful CanConnect the flag is set and one thread runs
C8_OneConnection ==
  /\ rxThreads <= 1
  /\ Cardinality(openFds) <= 1
  /\ mainPc = "cSocket" => (NoReceiveThread /\ rxThreads = 0 /\ openFds = {})
  /\ ConnectSucceeded =>
       (canConnected /\ rxThreads = 1 /\ rxPc \notin {"none", "joined", "exited"})

\* C8 witness: CanConnect, called on a connected driver, has joined the old
\* thread and closed the old handle
C8_Witness ==
  /\ mainFn = "CanConnect" /\ mainPc = "dReset"
  /\ canEventThreadRunning /\ rxPc = "joined"
  /\ canSocket # CAN_INVALID_SOCKET /\ canSocket \notin openFds

\* the per-connection state of a disconnected driver
Disconnected ==
  /\ canSocket = CAN_INVALID_SOCKET
  /\ canStartTime = 0
  /\ canConnected = FALSE
  /\ canEventThreadRunning = FALSE
  /\ canEventThreadId = 0
  /\ canStopEventThread = FALSE
  /\ NoReceiveThread
  /\ openFds = {}

InCanDisconnect == mainFn = "CanDisconnect" /\ mainPc # "idle"

\* C9: CanDisconnect returns with the per-connection state reset; it never
\* changes the registered callbacks; on a driver that is already disconnected
\* none of its steps changes the state of the driver
C9_DisconnectResets ==
  /\ [](mainPc = "idle" /\ mainFn = "CanDisconnect" => Disconnected)
  /\ [][InCanDisconnect =>
          /\ canReceivedCallback' = canReceivedCallback
          /\ canTransmittedCallback' = canTransmittedCallback]_vars
  /\ [][(InCanDisconnect /\ Disconnected) =>
          (canData' = canData /\ openFds' = openFds /\ rxPc' = rxPc)]_vars

\* C9 witness: CanDisconnect has returned on a driver whose receive thread ran
C9_Witness ==
  /\ mainPc = "idle" /\ mainFn = "CanDisconnect"
  /\ rxPc = "joined" /\ Disconnected

\* the message handed to the transmit callback equals the caller's message
SameFrame(a, b) == a.id = b.id /\ a.ext = b.ext /\ a.len = b.len /\ a.data = b.data

\* C10: a CanTransmit that found the driver connected returns true exactly when
\* write() took the whole frame; it then enters the registered callback once,
\* with the caller's id, ext, len and data; otherwise it never enters it
C10_TransmitConfirmation ==
  /\ (txPc = "ret" /\ txSawConnected) =>
        /\ txResult = (txOutcome = "full")
        /\ txResult => (txCbCalls <= 1 /\ (canTransmittedCallback # NULL => txCbCalls = 1))
        /\ ~txResult => txCbCalls = 0
  /\ txPc = "callback" =>
        (txSawConnected /\ txOutcome = "full" /\ txCbCalls = 1 /\ SameFrame(txMsg, txArg))

\* C10 witness: CanTransmit returns true after the callback took a message
\* whose length is above the maximum
C10_Witness ==
  /\ txPc = "ret" /\ txResult /\ txCbCalls = 1
  /\ txArg.len > CAN_DATA_LEN_MAX


\* the messages C11 speaks of: len within the data buffer, the identifier
\* within 29 bits (extended) or 11 bits (standard)
InRange(msg) ==
  /\ msg.len <= CAN_DATA_LEN_MAX
  /\ msg.id.top = 0
  /\ msg.ext \/ msg.id.low < 2048

\* rx has the id, ext, len and first len data bytes of msg
RoundTrip(rx, msg) ==
  /\ rx.id = msg.id /\ rx.ext = msg.ext /\ rx.len = msg.len
  /\ \A i \in 1..msg.len : rx.data[i] = msg.data[i]

ExampleMsg ==
  [id |-> Word(0, 1009), ext |-> TRUE, len |-> 2, data |-> Bytes8(<<0, 255>>), timestamp |-> 0]

\* C11: the wire frame CanTransmit builds from a message in range, read back by
\* the receive loop, is not discarded and is decoded to the same id, ext, len and
\* first len data bytes; id 0x3F1 extended with data 00 FF comes back as such
C11_RoundTrip ==
  /\ (rxPc = "process" /\ msgReceived /\ InRange(txArg)) => IsDataFrame(canRxFrame)
  /\ (rxPc = "callback" /\ InRange(txArg)) => RoundTrip(rxMsg, txArg)
  /\ (rxPc = "callback" /\ txArg = ExampleMsg) =>
        /\ rxMsg.ext = TRUE /\ rxMsg.id = Word(0, 1009) /\ rxMsg.len = 2
        /\ rxMsg.data[1] = 0 /\ rxMsg.data[2] = 255

\* C11 witness: the receive callback is handed the decoded example frame
C11_Witness ==
  /\ rxPc = "callback" /\ txArg = ExampleMsg
  /\ canRxFrame.can_id = Word(CAN_EFF_FLAG, 1009)


\* the number the sending node gave to a frame or to the message decoded from it
FrameNo(frame) == frame.can_id.low
MsgNo(msg) == msg.id.low

\* the frame has the remote-request flag or the error flag
RemoteOrError(frame) ==
  HasFlag(frame.can_id, CAN_RTR_FLAG) \/ HasFlag(frame.can_id, CAN_ERR_FLAG)

\* C12: the receive callback is entered only with a frame that has neither the
\* remote-request nor the error flag; a frame that was read is handed to the
\* registered callback exactly when it has neither flag, and it is the frame
\* just read, not the one handed over before
C12_OnlyDataFramesDelivered ==
  /\ [](rxPc = "callback" => (~RemoteOrError(canRxFrame) /\ MsgNo(rxMsg) = FrameNo(canRxFrame)))
  /\ [][(rxPc = "process" /\ rxPc' # "process" /\ msgReceived) =>
          ((rxPc' = "callback") <=> (~RemoteOrError(canRxFrame) /\ canReceivedCallback # NULL))]_vars
  /\ [][(rxPc # "callback" /\ rxPc' = "callback") =>
          /\ rxPc = "process" /\ msgReceived
          /\ MsgNo(rxMsg') = FrameNo(canRxFrame)
          /\ MsgNo(rxMsg') # MsgNo(rxMsg)]_vars

\* C12 witness: after the first frame went to the callback, the second, an
\* error frame, has been read and dropped
C12_Witness ==
  /\ canReceivedCallback # NULL
  /\ rxPc = "lock" /\ msgReceived = FALSE
  /\ HasFlag(canRxFrame.can_id, CAN_ERR_FLAG) /\ FrameNo(canRxFrame) = 2
  /\ MsgNo(rxMsg) = 1


\* C13: the receive thread does not own the connection lock while the receive
\* callback runs, nor CanTransmit while the transmit callback runs; a CanTransmit
\* call that reaches mtx_lock while the receive callback runs can take the lock
C13_CallbacksRunUnlocked ==
  /\ rxPc = "callback" => canSocketMutex # "rx"
  /\ txPc = "callback" => canSocketMutex # "tx"
  /\ (rxPc = "callback" /\ txPc = "lock") => ENABLED CanTransmit_Lock

\* C13 witness: while the receive callback runs, a CanTransmit call has taken
\* the lock and is about to write
C13_Witness ==
  /\ rxPc = "callback"
  /\ txPc = "write" /\ canSocketMutex = "tx"


\* C14: the sending node numbers its frames in the order in which the socket
\* queues them; every entry into the receive callback is with a frame of a
\* higher number than the one before, and the frames still queued have higher
\* numbers than the one in the callback
C14_DeliveredInQueueOrder ==
  /\ [][(rxPc # "callback" /\ rxPc' = "callback") => MsgNo(rxMsg') > MsgNo(rxMsg)]_vars
  /\ [](rxPc = "callback" =>
          \A i \in 1..Len(rxQueue) : FrameNo(rxQueue[i]) > MsgNo(rxMsg))

\* C14 witness: the first frame is in the callback while the next two wait in
\* the queue and a CanTransmit call holds the lock
C14_Witness ==
  /\ rxPc = "callback" /\ MsgNo(rxMsg) = 1
  /\ Len(rxQueue) = 2
  /\ txPc = "write" /\ canSocketMutex = "tx"


\* the connection state: the file-scope data of can.c, the open descriptors
\* and the number of receive threads
ConnectionState == <<canData, openFds, sockBound, rxThreads>>

\* one round of the receive loop in which read() yields no frame
PollingRound ==
  { <<"loop", "lock">>, <<"lock", "read">>, <<"read", "unlock">>,
    <<"unlock", "process">>, <<"process", "sleep">>, <<"sleep", "loop">> }

\* C15: a read() that yields no frame and a write() that does not take the
\* whole frame leave the connection state as it was; the driver stays connected
\* with its handle open, and the receive thread, holding no frame, goes round
\* its polling loop
C15_FailedTransferKeepsConnection ==
  /\ [][(rxPc = "read" /\ rxPc' = "unlock" /\ ~msgReceived') =>
          ConnectionState' = ConnectionState]_vars
  /\ [][(txPc = "write" /\ txPc' = "unlock" /\ txOutcome' # "full") =>
          ConnectionState' = ConnectionState]_vars
  /\ [][(~msgReceived /\ rxPc' # rxPc) => <<rxPc, rxPc'>> \in PollingRound]_vars
  /\ [](canConnected /\ canSocket \in openFds /\ rxThreads = 1)

\* C15 witness: after a read that yielded no frame the receive thread sleeps,
\* and a CanTransmit call returns after a failed write
C15_Witness ==
  /\ rxPc = "sleep"
  /\ txPc = "ret" /\ txOutcome = "failed"
  /\ canConnected /\ canSocket \in openFds


\* the polling thread enters an expiry callback
ExpiryFires == pollPc # "callback" /\ pollPc' = "callback"

\* the record at address p is a timer of the registry that is running and whose
\* period has passed at time t
RunningAndDue(p, t) ==
  /\ p \in live /\ InRegistry(p)
  /\ tmr[p].running
  /\ Elapsed(t, tmr[p].startTime, tmr[p].period_us)

\* C16: the callback of a timer (an allocated record the pass is visiting) is
\* entered only from a state in which the polling thread holds the registry lock
\* and the timer is in the registry, running, with (now - armTime) > period; the
\* callback entered is the copy taken there, the lock is released with that
\* step and is not the polling thread's while the callback runs, so that a timer
\* function the callback has called and that waits for the lock can take it
C16_ExpiryUnderLock ==
  /\ [][(ExpiryFires /\ aTimer \in live) =>
          /\ timerListMutex = "poll" /\ timerListMutex' = "free"
          /\ RunningAndDue(aTimer, now)
          /\ callbackFcnCopy' = tmr[aTimer].callbackFcn]_vars
  /\ [](pollPc = "callback" => timerListMutex # "poll")
  /\ []((pollPc = "callback" /\ call["cb"].pc = "lock") => ENABLED TimerRestart("cb"))

\* C16 witness: the callback of a running timer has called TimerRestart, which
\* is about to take the lock
C16_Witness ==
  /\ pollPc = "callback" /\ call["cb"].pc = "lock"
  /\ aTimer \in live /\ tmr[aTimer].running
  /\ timerListMutex = "free"


\* C17: when the callback of a timer is entered, more than the timer's period
\* has passed on the clock since the timer was armed
C17_NotBeforePeriod ==
  [][(ExpiryFires /\ aTimer \in live) =>
       (clock >= tmr[aTimer].startTime /\
        clock - tmr[aTimer].startTime > tmr[aTimer].period_us)]_vars


\* the timers of the registry, as a set
RegistrySet == {Registry[i] : i \in 1..Len(Registry)}

Handles == NodeIds \cup {NIL}

\* C19: a TimerCreate that returns a handle was given a callback; the handle is
\* the address of no timer that existed, and the new timer is at the head of
\* the registry, stopped, with period zero and that callback, the other timers
\* as they were.  A TimerCreate that returns the null handle was given no
\* callback or found no memory, and has changed nothing
C19_CreateResult ==
  [][\A t \in Threads, callbackFcn \in TimerCallbacks, result \in Handles :
       TimerCreate_Body(t, callbackFcn, result) =>
         IF result # NIL
           THEN /\ callbackFcn # NULL
                /\ result \notin live /\ live' = live \cup {result}
                /\ Registry' = <<result>> \o Registry
                /\ tmr'[result].running = FALSE
                /\ tmr'[result].period_us = 0
                /\ tmr'[result].callbackFcn = callbackFcn
                /\ \A n \in live : tmr'[n] = tmr[n]
           ELSE /\ callbackFcn = NULL \/ live = NodeIds
                /\ <<timerList, tmr, live>>' = <<timerList, tmr, live>>]_vars

\* C19 witness: TimerCreate returns the handle of a third timer, which heads
\* the registry, while one of the others is running
C19_Witness ==
  /\ call["app"].pc = "ret" /\ call["app"].fn = "TimerCreate"
  /\ call["app"].timer # NIL /\ timerList = call["app"].timer
  /\ Len(Registry) = 3
  /\ \E n \in live : tmr[n].running

\* what a timer is apart from its place in the list
Attributes(node) == <<node.callbackFcn, node.running, node.startTime, node.period_us>>

\* the sequence seq without h
Without(seq, h) == SelectSeq(seq, LAMBDA x : x # h)

\* C20: a TimerDelete with the handle of a timer of the registry leaves the
\* registry without that timer, the others in their order and with their
\* attributes, and releases that record only; with any other handle it changes
\* nothing and releases nothing
C20_DeleteEffect ==
  [][\A t \in Threads, timer \in Handles :
       TimerDelete_Body(t, timer) =>
         IF InRegistry(timer)
           THEN /\ Registry' = Without(Registry, timer)
                /\ live' = live \ {timer}
                /\ \A n \in live' : Attributes(tmr'[n]) = Attributes(tmr[n])
           ELSE <<timerList, tmr, live>>' = <<timerList, tmr, live>>]_vars

\* C20 witness: TimerDelete returns after deleting one of three timers; a
\* running and a stopped timer remain
C20_Witness ==
  /\ call["app"].pc = "ret" /\ call["app"].fn = "TimerDelete"
  /\ call["app"].timer \in NodeIds \ live
  /\ Len(Registry) = 2
  /\ tmr[Registry[1]].running /\ ~tmr[Registry[2]].running


\* C21: TimerStart(handle, ms) leaves the timer running, armed at the current
\* time, with a period of ms * 1000 microseconds
C21_StartStoresPeriod ==
  [][\A t \in Threads, h \in NodeIds, ms \in StartPeriodsMs :
       (h \in live /\ TimerStart_Body(t, h, ms)) =>
         /\ tmr'[h].running
         /\ tmr'[h].startTime = clock
         /\ tmr'[h].period_us % 1000 = 0
         /\ tmr'[h].period_us \div 1000 = ms]_vars

\* thread t has entered TimerRestart, has read the clock and has the registry
\* lock before it
AtRestart(t) == call[t].pc = "lock" /\ call[t].fn = "TimerRestart" /\ timerListMutex = "free"

C23_RestartKeepsPhase ==
  [][(TimerRestart("cb") /\ pollPc = "callback" /\ call["cb"].timer = aTimer
        /\ aTimer \in live
        /\ call["cb"].now < tmr[aTimer].startTime + 2 * tmr[aTimer].period_us) =>
          tmr'[aTimer].startTime = tmr[aTimer].startTime + tmr[aTimer].period_us]_vars


\* the values the clock can be read as
ClockSamples == {ClockStart + k * PeriodUs(1) : k \in 0..MaxLateTicks}

\* C24: a TimerRestart of a started timer that read the clock as r, more than
\* one period after the timer's deadline, leaves the timer running with its
\* deadline at r: every pass that reads the clock after r fires it, and once it
\* has fired and been restarted no pass that reads the clock up to a full
\* period after r fires it again, however many periods were missed
C24_CatchUpOnce ==
  [][\A t \in Threads :
       LET h == call[t].timer
           r == call[t].now
           P == tmr[h].period_us
       IN (TimerRestart(t) /\ h \in live /\ P > 0 /\ r > tmr[h].startTime + 2 * P) =>
            /\ tmr'[h].running
            /\ tmr'[h].startTime + P = r
            /\ \A n \in ClockSamples : n > r => Expired(tmr'[h], n)
            /\ \A n \in ClockSamples :
                 (r <= n /\ n <= r + P) =>
                   ~Expired([tmr'[h] EXCEPT !.startTime = @ + P], n)]_vars

\* C24 witness: the callback of a running timer is about to restart it more
\* than a period after the deadline
C24_Witness ==
  /\ AtRestart("cb") /\ pollPc = "callback"
  /\ call["cb"].timer = aTimer /\ aTimer \in live
  /\ tmr[aTimer].running /\ tmr[aTimer].period_us > 0
  /\ call["cb"].now > tmr[aTimer].startTime + 2 * tmr[aTimer].period_us


\* C25: TimerStop of a timer leaves it stopped with its arm time, period,
\* callback and place in the registry, and leaves the registry and every other
\* timer as they were
C25_StopEffect ==
  [][\A t \in Threads, h \in NodeIds :
       (h \in live /\ TimerStop_Body(t, h)) =>
         /\ tmr'[h] = [tmr[h] EXCEPT !.running = FALSE]
         /\ \A n \in NodeIds \ {h} : tmr'[n] = tmr[n]
         /\ Registry' = Registry
         /\ live' = live]_vars

\* C25 witness: of two timers that were started, one has been stopped and has
\* kept its arm time and period while the other is running
C25_Witness ==
  \E h, g \in live :
    /\ h # g
    /\ ~tmr[h].running /\ tmr[h].period_us = PeriodUs(1) /\ tmr[h].startTime = ClockStart
    /\ tmr[g].running
    /\ call["app"].pc = "idle"


\* the place of timer h in the registry, counted from the head
Place(h) == CHOOSE i \in 1..Len(Registry) : Registry[i] = h

\* timer g was created before timer h: TimerCreate puts the new timer at the
\* head and nothing reorders the list
CreatedBefore(g, h) == Place(g) > Place(h)

\* C26: when the callback of a timer is entered, no timer created before it is
\* expired in this pass and still waiting for its callback: of the timers
\* expired in one pass the one created earliest fires first
C26_EarliestFiresFirst ==
  [][(ExpiryFires /\ aTimer \in live) =>
       \A g \in live : CreatedBefore(g, aTimer) => ~Expired(tmr[g], now)]_vars


\* C27: TimerTerminate releases the records of the registry, each of them an
\* allocated record and none of them twice, and these are all the allocated
\* records; from then on the registry is empty and no timer record is allocated
C27_TerminateReleasesAll ==
  /\ [][TimerTerminate_Free =>
          /\ \A i \in 1..Len(Registry) : Registry[i] \in live
          /\ \A i, j \in 1..Len(Registry) : Registry[i] = Registry[j] => i = j
          /\ live \ live' = RegistrySet
          /\ live' = {}]_vars
  /\ [](call["app"].pc \in {"tDestroy", "terminated"} => timerList = NIL /\ live = {})

\* C27 witness: TimerTerminate has joined the polling thread and has a registry
\* of three timers before it, one of them running
C27_Witness ==
  /\ call["app"].pc = "tFree" /\ pollPc = "joined"
  /\ Len(Registry) = 3
  /\ \E h \in live : tmr[h].running
  /\ \E h \in live : ~tmr[h].running


\* C28: a CanDisconnect that has set the stop flag and waits for the receive
\* thread returns in the end, the threads being scheduled fairly and the
\* callback returning, also while the bus goes on queueing frames
C28_TeardownReturns ==
  (mainFn = "CanDisconnect" /\ mainPc = "dJoin") ~> (mainPc = "idle")


\* CanTransmit has built the wire frame of the message it was called with
FrameBuilt == txPc \in {"lock", "write", "unlock"}

\* C29: the wire frame CanTransmit has built has the data length of the
\* message, or 8 when that is more, and its data bytes up to that length are
\* those of the message; the length is that of the 8-byte buffer at most
C29_LengthClamped ==
  FrameBuilt =>
    /\ canTxFrame.can_dlc = (IF txArg.len < 8 THEN txArg.len ELSE 8)
    /\ canTxFrame.can_dlc \in 0..8
    /\ \A i \in 1..canTxFrame.can_dlc : canTxFrame.data[i] = txArg.data[i]

\* C29 witness: the frame of a message of length 255 has length 8 and the eight
\* bytes of the message
C29_Witness ==
  /\ FrameBuilt
  /\ txArg.len = 255 /\ txArg.data[8] = 8
  /\ canTxFrame.can_dlc = 8 /\ canTxFrame.data = txArg.data


\* the calls of a whole run of main that initialises the drivers
ExpectedCalls(connected) ==
  <<"TimerInit", "KeysInit", "CanInit", "OnPreStart", "CanConnect">>
    \o (IF connected THEN <<"OnStart", "OnStop", "CanDisconnect">> ELSE <<>>)
    \o <<"OnPostStop", "TimerTerminate", "CanTerminate", "KeysTerminate">>

IsPrefix(s, t) == Len(s) <= Len(t) /\ \A i \in 1..Len(s) : s[i] = t[i]

HasCalled(fn) == \E i \in 1..Len(appCalls) : appCalls[i] = fn

\* C30: main calls OnPreStart before CanConnect; what it calls after CanConnect
\* follows the value CanConnect returned: OnStart, OnStop and CanDisconnect, in
\* that order, only if it returned true, and neither OnStart nor OnStop if it
\* returned false; between OnStart and CanDisconnect the driver is connected;
\* and a run that has initialised the drivers returns only after OnPostStop,
\* TimerTerminate, CanTerminate and KeysTerminate, called in that order.
C30_ShellOrder ==
  /\ \E c \in BOOLEAN : IsPrefix(appCalls, ExpectedCalls(c))
  /\ Len(appCalls) > 5 =>
       /\ mainFn # "CanInit"
       /\ IsPrefix(appCalls, ExpectedCalls(mainResult))
  /\ (HasCalled("OnStart") /\ ~HasCalled("CanDisconnect")) => (mainResult /\ canConnected)
  /\ (HasCalled("CanConnect") /\ appPc # "inCanConnect" /\ ~mainResult) =>
       (~HasCalled("OnStart") /\ ~HasCalled("OnStop") /\ ~HasCalled("CanDisconnect"))
  /\ appPc = "returned" =>
       \/ appArgHelp /\ appCalls = <<>>
       \/ ~appArgHelp /\ appCalls = ExpectedCalls(mainResult)

\* a connected run of main has returned
C30_Witness ==
  /\ appPc = "returned"
  /\ canReceivedCallback = NULL /\ canSocketMutex = "destroyed"
  /\ appCalls = ExpectedCalls(TRUE)


\* C31: a CanTransmit that is about to issue its write (line 312) has a handle
\* that is not the invalid sentinel and is an open descriptor, whatever the
\* foreground thread does in CanDisconnect or CanConnect meanwhile
C31_WriteOnOpenHandle ==
  txPc = "write" => (canSocket # CAN_INVALID_SOCKET /\ canSocket \in openFds)


\* C32: a TimerRestart of a running timer that read the clock before the timer's
\* deadline (the arm time plus the period) moves the arm time on by exactly one
\* period
C32_EarlyRestartPostpones ==
  [][\A t \in Threads :
       LET h == call[t].timer
           P == tmr[h].period_us
       IN (TimerRestart(t) /\ h \in live /\ tmr[h].running /\ P > 0
             /\ call[t].now < tmr[h].startTime + P) =>
            tmr'[h].startTime = tmr[h].startTime + P]_vars

\* C33: the callback of a timer is entered only if it has not been entered
\* since the timer was last armed by TimerStart or TimerRestart
C33_FiresOncePerArming ==
  [][(ExpiryFires /\ aTimer \in live) => aTimer \notin fired]_vars


\* a timer that was started and is not running: the foreground thread, the
\* only caller of TimerStop, has stopped it and has not started it since
StoppedByApp(h) == h \in live /\ ~tmr[h].running /\ tmr[h].period_us > 0

\* C34: once the foreground thread has stopped a timer, the timer is made
\* running again only by a TimerStart of the foreground thread, and no pass
\* enters the callback of a timer that is stopped
C34_StoppedUntilStart ==
  [][/\ \A h \in NodeIds :
          (StoppedByApp(h) /\ h \in live' /\ tmr'[h].running) =>
             \E period \in TimerPeriodsMs : TimerStart_Body("app", h, period)
     /\ (ExpiryFires /\ aTimer \in live) => ~StoppedByApp(aTimer)]_vars


\* C35: the close() of CanDisconnect (lines 261-264) is given a descriptor that
\* is open, so no handle is closed a second time, and when CanTerminate has
\* returned no descriptor is open
C35_HandleClosedOnce ==
  [][/\ (CanDisconnect_Close /\ canSocket # CAN_INVALID_SOCKET) => canSocket \in openFds
     /\ CanTerminate_Destroy => openFds' = {}]_vars


\* C36: while the receive callback runs, the connection flag is true, so that
\* a CanTransmit called from inside the callback is not rejected at line 291
C36_ConnectedInReceiveCallback ==
  rxPc = "callback" => canConnected


\* the flag bits of the identifier field follow ext: the extended-frame flag is
\* set exactly when ext is true, the remote-request and error flags are clear
FlagsFollowExt(frame, msg) ==
  /\ HasFlag(frame.can_id, CAN_EFF_FLAG) <=> msg.ext
  /\ ~HasFlag(frame.can_id, CAN_RTR_FLAG)
  /\ ~HasFlag(frame.can_id, CAN_ERR_FLAG)

\* C37 as stated: for every 32-bit id the flag bits of the wire frame follow ext
C37_FlagsFollowExt_AnyId ==
  FrameBuilt => FlagsFollowExt(canTxFrame, txArg)

\* C37: for every id within 29 bits and either value of ext, the identifier
\* field of the wire frame has the extended-frame flag set exactly when ext is
\* true, has the remote-request and error flags clear and carries the id in
\* its low 29 bits
C37_FlagsFollowExt ==
  (FrameBuilt /\ txArg.id.top = 0) =>
     /\ FlagsFollowExt(canTxFrame, txArg)
     /\ canTxFrame.can_id.low = txArg.id.low

\* C37 witness: the frame of an extended message with the largest 29-bit id
C37_Witness ==
  /\ FrameBuilt
  /\ txArg.ext /\ txArg.id = Word(0, 536870911)
  /\ canTxFrame.can_id = Word(CAN_EFF_FLAG, 536870911)


\* the times a timer can have been armed at
ArmTimes == {ClockStart + k * PeriodUs(1) : k \in 0..MaxTicks}

\* the timer at h, armed at s, is running
ArmedAt(h, s) == h \in live /\ tmr[h].running /\ tmr[h].startTime = s

\* C38: with a polling thread, a timer that is running and whose period has
\* passed on the clock has its callback entered, unless it is armed again
\* (nothing stops or deletes it), when the polling thread is scheduled fairly and
\* every callback returns
C38_DueTimerFires ==
  \A h \in 1..MaxExpiring, s \in ArmTimes :
    (timerPollingThreadRunning /\ ArmedAt(h, s) /\ clock > s + tmr[h].period_us)
      ~> ((pollPc = "callback" /\ aTimer = h) \/ ~ArmedAt(h, s))


==========================================================================
